---- MODULE Spec2Model ----
(***************************************************************************)
(* The scoring-and-ranking engine of the leaderboard service               *)
(* (app/services/scoring_engine.py) over a transactional store with        *)
(* exclusive row locks, as configured in app/config.py (SERIALIZABLE).     *)
(*                                                                         *)
(* Units: raw and maximum scores are whole points; weighted scores and     *)
(* totals are integers counted in 1/SCALE (Decimal("0.0001")).             *)
(* A worker (one thread or request) runs one call at a time; every SQL     *)
(* statement that takes a lock is one step of its transaction.             *)
(***************************************************************************)
EXTENDS Integers, Sequences, FiniteSets, TLC

VARIABLES
    module_scores,          \* committed module_scores rows, keyed <<session_id, module_type>>
    score_audit_log,        \* committed score_audit_log rows, in commit order
    leaderboard_snapshot,   \* committed leaderboard_snapshot rows, keyed <<exam_id, user_id>>
    invalidations,          \* per exam: number of cache.delete signals emitted
    cache,                  \* the read-side cache: the stored value of each live key
    session_status,         \* committed exam_sessions.status, per session
    exam_sessions,          \* committed exam_sessions rows (exam_id, user_id), in insertion order
    pc,                     \* per worker: position in the request it handles
    args,                   \* per worker: arguments of its current (or last) call
    attempt,                \* per worker: loop variable of the retry loop (0: none started)
    locks,                  \* per worker: row locks held by its open transaction
    txn,                    \* per worker: ORM session state and uncommitted writes
    outcome,                \* per worker: how its last call ended
    result,                 \* per worker: the entry its last call returned (<<>>: none)
    commits,                \* per worker: commits made by its current (or last) call
    ncalls                  \* per worker: submissions and maintenance requests started

dbVars == <<module_scores, score_audit_log, leaderboard_snapshot, exam_sessions>>
procVars == <<pc, args, attempt, locks, txn, outcome, result, commits, ncalls>>
vars == <<module_scores, score_audit_log, leaderboard_snapshot, invalidations,
          cache, session_status, exam_sessions,
          pc, args, attempt, locks, txn, outcome, result, commits, ncalls>>

----------------------------------------------------------------------------
(* Bounds *)

NumProcs == 2
NumSessions == 4
MaxCalls == 3
MaxSerialCalls == 4
MaxRequests == 3

(* Program constants *)

(* mutant: one more pass of the retry loop *)
MaxRetriesOffByOne == 3 + 1

MAX_RETRIES == 3
SCALE == 10000

VALID_MODULES == {"coding", "quiz", "assessment"}

----------------------------------------------------------------------------
(* The seeded data: the exams, and one session per candidate
   (tests/test_concurrency.py, seed_data).  Workers are the threads or
   requests that call the engine. *)

Sessions == 1..NumSessions
Procs == 1..NumProcs

(* sessions 1 .. NumSessions - 1 sit exam 1, the last session sits exam 2 *)
ExamOf(s) == IF s < NumSessions THEN 1 ELSE 2
UserOf(s) == s

Weight(e, m) ==
    CASE m = "coding" -> 50
      [] m = "quiz" -> 30
      [] OTHER -> 20

MaxScore(e, m) == 100

(* Inputs of submit_module_score *)
MissingSession == NumSessions + 1         \* a session_id with no exam_sessions row
SessionInputs == {1, 2, NumSessions, MissingSession}
ModuleInputs == {"coding", "quiz", "essay"}
RawInputs == {80}
TimeInputs == {1}
MaxScoreInputs == {100}
SerialRawInputs == {0, 80}
SerialTimeInputs == {1, 2}

NoRows == [k \in {} |-> 0]

NoTxn == [coll |-> NoRows, ms |-> NoRows, audit |-> <<>>, entry |-> NoRows, ranks |-> NoRows]

NoArgs == [session_id |-> 0, module_type |-> "", raw_score |-> 0, max_score |-> 0,
           time_spent_sec |-> 0, exam_id |-> 0, page |-> 0, per_page |-> 0, user_id |-> 0]

----------------------------------------------------------------------------
(* Weighted-score calculator *)

(* Decimal.quantize(..., rounding=ROUND_HALF_UP) of n/d, for d > 0: to the
   nearest unit, a half away from zero *)
RoundHalfUp(n, d) ==
    IF n >= 0 THEN (2 * n + d) \div (2 * d) ELSE 0 - ((2 * (0 - n) + d) \div (2 * d))

(* coll is session.module_scores: the loaded rows of one session, by module type *)
WeightedModule(coll, e, m) ==
    IF m \in DOMAIN coll /\ MaxScore(e, m) > 0
    THEN RoundHalfUp(coll[m].raw_score * Weight(e, m) * SCALE, MaxScore(e, m))
    ELSE 0

TimeModule(coll, e, m) ==
    IF m \in DOMAIN coll /\ MaxScore(e, m) > 0
    THEN coll[m].time_spent_sec
    ELSE 0

_calculate_weighted_score(coll, e) ==
    [weighted_coding |-> WeightedModule(coll, e, "coding"),
     weighted_quiz |-> WeightedModule(coll, e, "quiz"),
     weighted_assessment |-> WeightedModule(coll, e, "assessment"),
     total_score |-> WeightedModule(coll, e, "coding") + WeightedModule(coll, e, "quiz")
                     + WeightedModule(coll, e, "assessment"),
     total_time_sec |-> TimeModule(coll, e, "coding") + TimeModule(coll, e, "quiz")
                        + TimeModule(coll, e, "assessment")]

----------------------------------------------------------------------------
(* Rank refresh: DENSE_RANK() OVER (ORDER BY total_score DESC, total_time_sec ASC) *)

(* mutant: ORDER BY total_score DESC, total_time_sec DESC *)
OrderedBeforeTimeDesc(a, b) ==
    \/ a.total_score > b.total_score
    \/ a.total_score = b.total_score /\ a.total_time_sec > b.total_time_sec

(* row a sorts strictly before row b *)
OrderedBefore(a, b) ==
    \/ a.total_score > b.total_score
    \/ a.total_score = b.total_score /\ a.total_time_sec < b.total_time_sec

(* rows a and b are peers of the window ordering *)
Peers(a, b) ==
    a.total_score = b.total_score /\ a.total_time_sec = b.total_time_sec

RECURSIVE SortedKeys(_, _)
SortedKeys(rows, keys) ==
    IF keys = {} THEN <<>>
    ELSE LET k == CHOOSE x \in keys : \A y \in keys : ~OrderedBefore(rows[y], rows[x])
         IN <<k>> \o SortedKeys(rows, keys \ {k})

(* mutant: RANK() instead of DENSE_RANK(): after peers the rank jumps to the
   row's position *)
RankWithGaps(rows) ==
    LET s == SortedKeys(rows, DOMAIN rows)
        rk[i \in 1..Len(s)] ==
            IF i = 1 THEN 1
            ELSE IF Peers(rows[s[i - 1]], rows[s[i]]) THEN rk[i - 1] ELSE i
    IN [k \in DOMAIN rows |-> rk[CHOOSE i \in 1..Len(s) : s[i] = k]]

(* the window function: one pass over the ordered rows, the rank going up by
   one at every row that is not a peer of the row before it *)
DenseRank(rows) ==
    LET s == SortedKeys(rows, DOMAIN rows)
        rk[i \in 1..Len(s)] ==
            IF i = 1 THEN 1
            ELSE IF Peers(rows[s[i - 1]], rows[s[i]]) THEN rk[i - 1] ELSE rk[i - 1] + 1
    IN [k \in DOMAIN rows |-> rk[CHOOSE i \in 1..Len(s) : s[i] = k]]

(* the rows of exam e among rows *)
OfExam(rows, e) == [k \in {x \in DOMAIN rows : x[1] = e} |-> rows[k]]

(* mutant: every rank moves one down from the stored one *)
RefreshRanksShifted(rows, e) ==
    [k \in DOMAIN OfExam(rows, e) |-> rows[k].rank_position + 1]

(* mutant: the UPDATE has no WHERE exam_id = :eid and ranks the rows of all exams together *)
RefreshRanksAllExams(rows, e) == DenseRank(rows)

(* the UPDATE ... JOIN of _refresh_ranks: the new rank_position of every row of exam e *)
_refresh_ranks(rows, e) == DenseRank(OfExam(rows, e))

----------------------------------------------------------------------------
(* Row locks of the store.  A transaction keeps every lock it took until it
   commits or rolls back. *)

ModuleIndex(m) ==
    CASE m = "coding" -> 1
      [] m = "quiz" -> 2
      [] OTHER -> 3

Lock(kind, a, b) == [kind |-> kind, a |-> a, b |-> b]

(* l is requested while another transaction holds h *)
Conflicts(l, h) ==
    CASE l.kind = "session" -> \/ h.kind = "session" /\ h.a = l.a
                               \/ h.kind = "pair_s" /\ h.a = ExamOf(l.a) /\ h.b = UserOf(l.a)
      [] l.kind = "module" -> h.kind = "module" /\ h.a = l.a /\ h.b = l.b
      [] l.kind = "entry" -> (h.kind = "entry" /\ h.a = l.a /\ h.b = l.b)
                                 \/ (h.kind = "exam" /\ h.a = l.a)
      [] l.kind = "exam" -> h.kind \in {"entry", "exam"} /\ h.a = l.a
      [] l.kind = "pair_s" -> \/ h.kind = "pair_x" /\ h.a = l.a /\ h.b = l.b
                              \/ h.kind = "session" /\ ExamOf(h.a) = l.a /\ UserOf(h.a) = l.b
      [] l.kind = "pair_x" -> h.kind \in {"pair_s", "pair_x"} /\ h.a = l.a /\ h.b = l.b
      [] OTHER -> FALSE

(* the locks the statement at worker p's position asks for *)
Wanted(p) ==
    LET s == args[p].session_id
        e == ExamOf(s)
    IN CASE pc[p] = "select_session" ->
                IF s \in Sessions THEN {Lock("session", s, 0)} ELSE {}
         [] pc[p] = "select_module" -> {Lock("module", s, ModuleIndex(args[p].module_type))}
         [] pc[p] = "upsert_leaderboard" -> {Lock("entry", e, UserOf(s))}
         [] pc[p] = "refresh_ranks" -> {Lock("exam", e, 0)}
         [] pc[p] = "reread" -> {Lock("entry", e, UserOf(s))}
         [] pc[p] = "get_query" -> {Lock("exam", args[p].exam_id, 0)}
         [] pc[p] \in {"recalc_refresh", "finish_refresh"} -> {Lock("exam", args[p].exam_id, 0)}
         [] pc[p] = "finish_select" ->
                IF s \in Sessions THEN {Lock("session", s, 0)} ELSE {}
         [] pc[p] = "create_select" -> {Lock("pair_s", args[p].exam_id, args[p].user_id)}
         [] pc[p] = "create_insert" -> {Lock("pair_x", args[p].exam_id, args[p].user_id)}
         [] OTHER -> {}

(* mutant: statements never wait for another transaction's locks
   (no FOR UPDATE, no SERIALIZABLE isolation) *)
BlockedNever(p) == FALSE

Blocked(p) ==
    \E q \in Procs \ {p} : \E l \in Wanted(p) : \E h \in locks[q] : Conflicts(l, h)

----------------------------------------------------------------------------
(* submit_module_score *)

(* mutant: no validation of the module type *)
ValidateAnything(m) == TRUE

_validate_module_type(m) == m \in VALID_MODULES

(* submit_module_score is called: validation, then the first pass of the loop *)
submit_module_score(p, s, m, raw, max, t) ==
    /\ pc[p] = "idle"
    /\ args' = [args EXCEPT ![p] = [NoArgs EXCEPT !.session_id = s, !.module_type = m,
                                                   !.raw_score = raw, !.max_score = max,
                                                   !.time_spent_sec = t]]
    /\ ncalls' = [ncalls EXCEPT ![p] = @ + 1]
    /\ commits' = [commits EXCEPT ![p] = 0]
    /\ result' = [result EXCEPT ![p] = <<>>]
    /\ IF _validate_module_type(m)
       THEN /\ pc' = [pc EXCEPT ![p] = "select_session"]
            /\ attempt' = [attempt EXCEPT ![p] = 1]
            /\ outcome' = [outcome EXCEPT ![p] = "running"]
       ELSE /\ pc' = pc
            /\ attempt' = [attempt EXCEPT ![p] = 0]
            /\ outcome' = [outcome EXCEPT ![p] = "ValueError"]
    /\ UNCHANGED <<dbVars, invalidations, cache, session_status, locks, txn>>

(* mutant: the session is selected only while it is in progress *)
SelectSessionInProgressOnly(p) ==
    LET s == args[p].session_id IN
    /\ pc[p] = "select_session"
    /\ ~Blocked(p)
    /\ IF s \in Sessions /\ session_status[s] = "in_progress"
       THEN /\ locks' = [locks EXCEPT ![p] = @ \cup Wanted(p)]
            /\ txn' = [txn EXCEPT ![p].coll =
                         [m \in {x \in VALID_MODULES : <<s, x>> \in DOMAIN module_scores}
                            |-> module_scores[<<s, m>>]]]
            /\ pc' = [pc EXCEPT ![p] = "select_module"]
            /\ UNCHANGED outcome
       ELSE /\ outcome' = [outcome EXCEPT ![p] = "NoResultFound"]
            /\ pc' = [pc EXCEPT ![p] = "idle"]
            /\ UNCHANGED <<locks, txn>>
    /\ UNCHANGED <<dbVars, invalidations, cache, session_status, args, attempt, result, commits, ncalls>>

(* Step 1: SELECT exam_sessions ... FOR UPDATE, with module_scores joined
   (lazy="joined"); scalar_one() raises NoResultFound when there is no row *)
SelectSession(p) ==
    LET s == args[p].session_id IN
    /\ pc[p] = "select_session"
    /\ ~Blocked(p)
    /\ IF s \in Sessions
       THEN /\ locks' = [locks EXCEPT ![p] = @ \cup Wanted(p)]
            /\ txn' = [txn EXCEPT ![p].coll =
                         [m \in {x \in VALID_MODULES : <<s, x>> \in DOMAIN module_scores}
                            |-> module_scores[<<s, m>>]]]
            /\ pc' = [pc EXCEPT ![p] = "select_module"]
            /\ UNCHANGED outcome
       ELSE /\ outcome' = [outcome EXCEPT ![p] = "NoResultFound"]
            /\ pc' = [pc EXCEPT ![p] = "idle"]
            /\ UNCHANGED <<locks, txn>>
    /\ UNCHANGED <<dbVars, invalidations, cache, session_status, args, attempt, result, commits, ncalls>>

(* Steps 2 and 3: SELECT module_scores ... FOR UPDATE, then the new row is
   added to the ORM session, or the loaded row is changed in place, and the
   audit row is added.  A row changed in place is the object that
   session.module_scores holds; a new row is not put into that collection. *)
UpsertModuleScore(p) ==
    LET s == args[p].session_id
        m == args[p].module_type
        k == <<s, m>>
        exists == k \in DOMAIN module_scores
        row == [raw_score |-> args[p].raw_score, max_score |-> args[p].max_score,
                time_spent_sec |-> args[p].time_spent_sec,
                version |-> IF exists THEN module_scores[k].version + 1 ELSE 1]
        audit == [session_id |-> s, module_type |-> m,
                  old_score |-> IF exists THEN <<module_scores[k].raw_score>> ELSE <<>>,
                  new_score |-> args[p].raw_score, changed_by |-> p]
    IN
    /\ pc[p] = "select_module"
    /\ ~Blocked(p)
    /\ locks' = [locks EXCEPT ![p] = @ \cup Wanted(p)]
    /\ txn' = [txn EXCEPT ![p].ms = k :> row,
                          ![p].audit = <<audit>>,
                          ![p].coll = IF exists THEN (m :> row) @@ @ ELSE @]
    /\ pc' = [pc EXCEPT ![p] = "upsert_leaderboard"]
    /\ UNCHANGED <<dbVars, invalidations, cache, session_status, args, attempt, outcome, result, commits, ncalls>>

(* Steps 4 and 5: the weighted result of session.module_scores, then
   _upsert_leaderboard: SELECT leaderboard_snapshot ... FOR UPDATE and the
   row is added (rank_position 0) or changed in place *)
_upsert_leaderboard(p) ==
    LET s == args[p].session_id
        e == ExamOf(s)
        k == <<e, UserOf(s)>>
        weighted == _calculate_weighted_score(txn[p].coll, e)
        row == [session_id |-> s,
                weighted_coding |-> weighted.weighted_coding,
                weighted_quiz |-> weighted.weighted_quiz,
                weighted_assessment |-> weighted.weighted_assessment,
                total_score |-> weighted.total_score,
                total_time_sec |-> weighted.total_time_sec,
                rank_position |-> IF k \in DOMAIN leaderboard_snapshot
                                  THEN leaderboard_snapshot[k].rank_position ELSE 0]
    IN
    /\ pc[p] = "upsert_leaderboard"
    /\ ~Blocked(p)
    /\ locks' = [locks EXCEPT ![p] = @ \cup Wanted(p)]
    /\ txn' = [txn EXCEPT ![p].entry = k :> row]
    /\ pc' = [pc EXCEPT ![p] = "refresh_ranks"]
    /\ UNCHANGED <<dbVars, invalidations, cache, session_status, args, attempt, outcome, result, commits, ncalls>>

(* the leaderboard_snapshot rows as worker p's transaction reads them *)
TxnRows(p) == txn[p].entry @@ leaderboard_snapshot

(* Step 6: flush, then _refresh_ranks(exam_id) inside the transaction *)
RefreshRanks(p) ==
    LET e == ExamOf(args[p].session_id) IN
    /\ pc[p] = "refresh_ranks"
    /\ ~Blocked(p)
    /\ locks' = [locks EXCEPT ![p] = @ \cup Wanted(p)]
    /\ txn' = [txn EXCEPT ![p].ranks = _refresh_ranks(TxnRows(p), e)]
    /\ pc' = [pc EXCEPT ![p] = "commit"]
    /\ UNCHANGED <<dbVars, invalidations, cache, session_status, args, attempt, outcome, result, commits, ncalls>>

(* mutant: the commit comes before the rank refresh, whose writes are lost *)
InstalledWithoutRanks(rows, t) == t.entry @@ rows

(* mutant: the commit applies the refreshed ranks to the rows already
   stored and loses the row the transaction added *)
InstalledRanksOnly(rows, t) ==
    [k \in DOMAIN rows |->
        LET base == IF k \in DOMAIN t.entry THEN t.entry[k] ELSE rows[k]
        IN IF k \in DOMAIN t.ranks
           THEN [base EXCEPT !.rank_position = t.ranks[k]]
           ELSE base]

(* the rows of leaderboard_snapshot after the writes of transaction t *)
Installed(rows, t) ==
    [k \in DOMAIN rows \cup DOMAIN t.entry |->
        LET base == IF k \in DOMAIN t.entry THEN t.entry[k] ELSE rows[k]
        IN IF k \in DOMAIN t.ranks
           THEN [base EXCEPT !.rank_position = t.ranks[k]]
           ELSE base]

(* mutant: the submission also marks its session as submitted *)
CommitFinishingSession(p) ==
    /\ pc[p] = "commit"
    /\ module_scores' = txn[p].ms @@ module_scores
    /\ score_audit_log' = score_audit_log \o txn[p].audit
    /\ leaderboard_snapshot' = Installed(leaderboard_snapshot, txn[p])
    /\ session_status' = [session_status EXCEPT ![args[p].session_id] = "submitted"]
    /\ locks' = [locks EXCEPT ![p] = {}]
    /\ txn' = [txn EXCEPT ![p] = NoTxn]
    /\ commits' = [commits EXCEPT ![p] = @ + 1]
    /\ pc' = [pc EXCEPT ![p] = "invalidate"]
    /\ UNCHANGED <<invalidations, cache, exam_sessions, args, attempt, outcome, result, ncalls>>

(* mutant: the commit keeps the module row already stored and drops the
   transaction's update of it *)
CommitKeepingOldRows(p) ==
    /\ pc[p] = "commit"
    /\ module_scores' = module_scores @@ txn[p].ms
    /\ score_audit_log' = score_audit_log \o txn[p].audit
    /\ leaderboard_snapshot' = Installed(leaderboard_snapshot, txn[p])
    /\ locks' = [locks EXCEPT ![p] = {}]
    /\ txn' = [txn EXCEPT ![p] = NoTxn]
    /\ commits' = [commits EXCEPT ![p] = @ + 1]
    /\ pc' = [pc EXCEPT ![p] = "invalidate"]
    /\ UNCHANGED <<invalidations, cache, session_status, exam_sessions, args, attempt, outcome, result, ncalls>>

(* mutant: the commit writes the audit row with the old score of the
   first submission, null *)
CommitAuditWithoutOldScore(p) ==
    /\ pc[p] = "commit"
    /\ module_scores' = txn[p].ms @@ module_scores
    /\ score_audit_log' = score_audit_log \o [i \in DOMAIN txn[p].audit |->
                                                 [txn[p].audit[i] EXCEPT !.old_score = <<>>]]
    /\ leaderboard_snapshot' = Installed(leaderboard_snapshot, txn[p])
    /\ locks' = [locks EXCEPT ![p] = {}]
    /\ txn' = [txn EXCEPT ![p] = NoTxn]
    /\ commits' = [commits EXCEPT ![p] = @ + 1]
    /\ pc' = [pc EXCEPT ![p] = "invalidate"]
    /\ UNCHANGED <<invalidations, cache, session_status, exam_sessions, args, attempt, outcome, result, ncalls>>

(* mutant: the commit replaces the audit log by the transaction's rows *)
CommitReplacingLog(p) ==
    /\ pc[p] = "commit"
    /\ module_scores' = txn[p].ms @@ module_scores
    /\ score_audit_log' = txn[p].audit
    /\ leaderboard_snapshot' = Installed(leaderboard_snapshot, txn[p])
    /\ locks' = [locks EXCEPT ![p] = {}]
    /\ txn' = [txn EXCEPT ![p] = NoTxn]
    /\ commits' = [commits EXCEPT ![p] = @ + 1]
    /\ pc' = [pc EXCEPT ![p] = "invalidate"]
    /\ UNCHANGED <<invalidations, cache, session_status, exam_sessions, args, attempt, outcome, result, ncalls>>

(* Step 7, db.session.commit(): every write of the transaction becomes
   visible at once and its locks are released *)
Commit(p) ==
    /\ pc[p] = "commit"
    /\ module_scores' = txn[p].ms @@ module_scores
    /\ score_audit_log' = score_audit_log \o txn[p].audit
    /\ leaderboard_snapshot' = Installed(leaderboard_snapshot, txn[p])
    /\ locks' = [locks EXCEPT ![p] = {}]
    /\ txn' = [txn EXCEPT ![p] = NoTxn]
    /\ commits' = [commits EXCEPT ![p] = @ + 1]
    /\ pc' = [pc EXCEPT ![p] = "invalidate"]
    /\ UNCHANGED <<invalidations, cache, session_status, exam_sessions, args, attempt, outcome, result, ncalls>>

(* the key f"leaderboard:exam:{exam_id}" that the invalidation deletes; page
   and per_page of a page key are at least 1 *)
BaseKey(e) == <<e, 0, 0>>

(* the key f"leaderboard:exam:{exam_id}:p{page}:pp{per_page}" of a cached page *)
PageKey(e, page, per_page) == <<e, page, per_page>>

(* cache.delete(key) *)
cache_delete(c, key) == [k \in DOMAIN c \ {key} |-> c[k]]

(* mutant: the invalidation is keyed by another exam than the session's *)
InvalidateOtherExam(p) ==
    LET e == IF ExamOf(args[p].session_id) = 1 THEN 2 ELSE 1 IN
    /\ pc[p] = "invalidate"
    /\ invalidations' = [invalidations EXCEPT ![e] = @ + 1]
    /\ cache' = cache_delete(cache, BaseKey(e))
    /\ pc' = [pc EXCEPT ![p] = "reread"]
    /\ UNCHANGED <<dbVars, session_status, args, attempt, locks, txn, outcome, result, commits, ncalls>>

(* Step 7, _invalidate_leaderboard_cache(exam_id): cache.delete of the exam's key *)
_invalidate_leaderboard_cache(p) ==
    LET e == ExamOf(args[p].session_id) IN
    /\ pc[p] = "invalidate"
    /\ invalidations' = [invalidations EXCEPT ![e] = @ + 1]
    /\ cache' = cache_delete(cache, BaseKey(e))
    /\ pc' = [pc EXCEPT ![p] = "reread"]
    /\ UNCHANGED <<dbVars, session_status, args, attempt, locks, txn, outcome, result, commits, ncalls>>

_serialise_leaderboard_entry(k, entry) ==
    [exam_id |-> k[1], user_id |-> k[2], rank |-> entry.rank_position,
     total_score |-> entry.total_score,
     weighted_coding |-> entry.weighted_coding,
     weighted_quiz |-> entry.weighted_quiz,
     weighted_assessment |-> entry.weighted_assessment,
     total_time_sec |-> entry.total_time_sec]

(* The re-read of the entry after the commit, a locking read in a new
   transaction, and the return of the serialised entry; the request's
   session is removed on return, which ends that transaction *)
ReRead(p) ==
    LET s == args[p].session_id
        k == <<ExamOf(s), UserOf(s)>>
    IN
    /\ pc[p] = "reread"
    /\ ~Blocked(p)
    /\ result' = [result EXCEPT ![p] = <<_serialise_leaderboard_entry(k, leaderboard_snapshot[k])>>]
    /\ outcome' = [outcome EXCEPT ![p] = "returned"]
    /\ pc' = [pc EXCEPT ![p] = "idle"]
    /\ UNCHANGED <<dbVars, invalidations, cache, session_status, args, attempt, locks, txn, commits, ncalls>>

(* except OperationalError: a statement that waits for a lock another
   transaction holds may end with a lock-wait timeout or as the victim of a
   deadlock.  rollback(), then the next pass of the loop, or RuntimeError
   when this was pass MAX_RETRIES *)
(* mutant: the loop has no last pass; a conflict is always retried *)
OperationalErrorRetriedForever(p) ==
    /\ Blocked(p)
    /\ locks' = [locks EXCEPT ![p] = {}]
    /\ txn' = [txn EXCEPT ![p] = NoTxn]
    /\ pc' = [pc EXCEPT ![p] = "select_session"]
    /\ UNCHANGED <<dbVars, invalidations, cache, session_status, args, attempt, outcome, result, commits, ncalls>>

OperationalError(p) ==
    /\ Blocked(p)
    /\ locks' = [locks EXCEPT ![p] = {}]
    /\ txn' = [txn EXCEPT ![p] = NoTxn]
    /\ IF attempt[p] = MAX_RETRIES
       THEN /\ outcome' = [outcome EXCEPT ![p] = "RuntimeError"]
            /\ pc' = [pc EXCEPT ![p] = "idle"]
            /\ UNCHANGED attempt
       ELSE /\ attempt' = [attempt EXCEPT ![p] = @ + 1]
            /\ pc' = [pc EXCEPT ![p] = "select_session"]
            /\ UNCHANGED outcome
    /\ UNCHANGED <<dbVars, invalidations, cache, session_status, args, result, commits, ncalls>>

(* The storage layer fails for a reason that is no lock conflict while a
   statement of the attempt runs (the connection to the server is lost);
   the driver reports it as OperationalError too, so the same except clause
   handles it *)
StorageFailure(p) ==
    /\ pc[p] \in {"select_session", "select_module", "upsert_leaderboard",
                  "refresh_ranks", "reread"}
    /\ locks' = [locks EXCEPT ![p] = {}]
    /\ txn' = [txn EXCEPT ![p] = NoTxn]
    /\ IF attempt[p] = MAX_RETRIES
       THEN /\ outcome' = [outcome EXCEPT ![p] = "RuntimeError"]
            /\ pc' = [pc EXCEPT ![p] = "idle"]
            /\ UNCHANGED attempt
       ELSE /\ attempt' = [attempt EXCEPT ![p] = @ + 1]
            /\ pc' = [pc EXCEPT ![p] = "select_session"]
            /\ UNCHANGED outcome
    /\ UNCHANGED <<dbVars, invalidations, cache, session_status, args, result, commits, ncalls>>

(* POST /scores, the except clauses of submit_score: the status of the
   response for each way the call of submit_module_score can end *)
submit_score(o) ==
    CASE o = "returned" -> 200
      [] o = "ValueError" -> 400
      [] o = "RuntimeError" -> 409
      [] OTHER -> 500

----------------------------------------------------------------------------
(* GET /leaderboard *)

(* the orders in which ORDER BY total_score DESC, total_time_sec ASC can
   return rows: rows that tie on both columns come in any order *)
PageOrders(rows) ==
    {s \in [1..Cardinality(DOMAIN rows) -> DOMAIN rows] :
        \A i \in DOMAIN s : \A j \in DOMAIN s :
            i < j => s[i] # s[j] /\ ~OrderedBefore(rows[s[j]], rows[s[i]])}

(* one element of "leaderboard" in the response *)
PageEntry(k, entry) ==
    [rank |-> entry.rank_position, user_id |-> k[2],
     total_score |-> entry.total_score,
     weighted_coding |-> entry.weighted_coding,
     weighted_quiz |-> entry.weighted_quiz,
     weighted_assessment |-> entry.weighted_assessment,
     total_time_sec |-> entry.total_time_sec]

(* OFFSET (page - 1) * per_page LIMIT per_page of the ordered rows *)
PageOf(rows, order, page, per_page) ==
    LET first == (page - 1) * per_page + 1
        last == IF page * per_page < Len(order) THEN page * per_page ELSE Len(order)
    IN [i \in 1..(IF last >= first THEN last - first + 1 ELSE 0) |->
            PageEntry(order[first + i - 1], rows[order[first + i - 1]])]

(* the request arrives: exam_id, page and per_page are parsed *)
get_leaderboard(p, e, page, per_page) ==
    /\ pc[p] = "idle"
    /\ args' = [args EXCEPT ![p] = [NoArgs EXCEPT !.exam_id = e, !.page = page,
                                                   !.per_page = per_page]]
    /\ pc' = [pc EXCEPT ![p] = "get_cache"]
    /\ outcome' = [outcome EXCEPT ![p] = "running"]
    /\ result' = [result EXCEPT ![p] = <<>>]
    /\ attempt' = [attempt EXCEPT ![p] = 0]
    /\ commits' = [commits EXCEPT ![p] = 0]
    /\ UNCHANGED <<dbVars, invalidations, cache, session_status, locks, txn, ncalls>>

(* cache.get(cache_key): a hit is returned with "cached" set *)
GetCache(p) ==
    LET key == PageKey(args[p].exam_id, args[p].page, args[p].per_page) IN
    /\ pc[p] = "get_cache"
    /\ IF key \in DOMAIN cache
       THEN /\ result' = [result EXCEPT ![p] = <<[cache[key] EXCEPT !.cached = TRUE]>>]
            /\ outcome' = [outcome EXCEPT ![p] = "returned"]
            /\ pc' = [pc EXCEPT ![p] = "idle"]
       ELSE /\ pc' = [pc EXCEPT ![p] = "get_query"]
            /\ UNCHANGED <<result, outcome>>
    /\ UNCHANGED <<dbVars, invalidations, cache, session_status, args, attempt, locks, txn, commits, ncalls>>

(* cache miss: the count and the page are read from the database, the
   response is stored under the page's key and returned *)
GetQuery(p) ==
    LET e == args[p].exam_id
        rows == OfExam(leaderboard_snapshot, e)
        key == PageKey(e, args[p].page, args[p].per_page)
    IN
    /\ pc[p] = "get_query"
    /\ ~Blocked(p)
    /\ \E order \in PageOrders(rows) :
          LET response == [exam_id |-> e,
                           total_participants |-> Cardinality(DOMAIN rows),
                           page |-> args[p].page, per_page |-> args[p].per_page,
                           leaderboard |-> PageOf(rows, order, args[p].page, args[p].per_page),
                           cached |-> FALSE]
          IN /\ cache' = (key :> response) @@ cache
             /\ result' = [result EXCEPT ![p] = <<response>>]
    /\ outcome' = [outcome EXCEPT ![p] = "returned"]
    /\ pc' = [pc EXCEPT ![p] = "idle"]
    /\ UNCHANGED <<dbVars, invalidations, session_status, args, attempt, locks, txn, commits, ncalls>>

(* a cached value reaches its timeout (CACHE_DEFAULT_TIMEOUT) and is gone *)
CacheTimeout ==
    /\ \E key \in DOMAIN cache : cache' = cache_delete(cache, key)
    /\ UNCHANGED <<dbVars, invalidations, session_status, procVars>>

----------------------------------------------------------------------------
(* The standalone rank refresh: POST /leaderboard/recalculate and
   PATCH /sessions/<id>/finish *)

(* recalculate_all_ranks(exam_id) = _refresh_ranks(exam_id), in the
   request's transaction: the UPDATE locks the exam's rows and writes
   their new ranks, uncommitted *)
recalculate_all_ranks(p) ==
    LET e == args[p].exam_id IN
    /\ pc[p] \in {"recalc_refresh", "finish_refresh"}
    /\ ~Blocked(p)
    /\ locks' = [locks EXCEPT ![p] = @ \cup Wanted(p)]
    /\ txn' = [txn EXCEPT ![p].ranks = _refresh_ranks(TxnRows(p), e)]
    /\ pc' = [pc EXCEPT ![p] = IF pc[p] = "recalc_refresh"
                                THEN "recalc_invalidate" ELSE "finish_invalidate"]
    /\ UNCHANGED <<dbVars, invalidations, cache, session_status, args, attempt, outcome, result, commits, ncalls>>

(* the request ends: its scoped session is removed, which rolls back the
   transaction that is open and releases its locks *)
Teardown(p) ==
    /\ pc[p] = "teardown"
    /\ locks' = [locks EXCEPT ![p] = {}]
    /\ txn' = [txn EXCEPT ![p] = NoTxn]
    /\ pc' = [pc EXCEPT ![p] = "idle"]
    /\ UNCHANGED <<dbVars, invalidations, cache, session_status, args, attempt, outcome, result, commits, ncalls>>

(* POST /leaderboard/recalculate with exam_id = e *)
recalculate(p, e) ==
    /\ pc[p] = "idle"
    /\ args' = [args EXCEPT ![p] = [NoArgs EXCEPT !.exam_id = e]]
    /\ pc' = [pc EXCEPT ![p] = "recalc_refresh"]
    /\ outcome' = [outcome EXCEPT ![p] = "running"]
    /\ result' = [result EXCEPT ![p] = <<>>]
    /\ attempt' = [attempt EXCEPT ![p] = 0]
    /\ commits' = [commits EXCEPT ![p] = 0]
    /\ ncalls' = [ncalls EXCEPT ![p] = @ + 1]
    /\ UNCHANGED <<dbVars, invalidations, cache, session_status, locks, txn>>

(* cache.delete(f"leaderboard:exam:{exam_id}") and the 200 response *)
RecalculateInvalidate(p) ==
    LET e == args[p].exam_id IN
    /\ pc[p] = "recalc_invalidate"
    /\ invalidations' = [invalidations EXCEPT ![e] = @ + 1]
    /\ cache' = cache_delete(cache, BaseKey(e))
    /\ result' = [result EXCEPT ![p] =
                     <<[exam_id |-> e, rows_updated |-> Cardinality(DOMAIN txn[p].ranks)]>>]
    /\ outcome' = [outcome EXCEPT ![p] = "returned"]
    /\ pc' = [pc EXCEPT ![p] = "teardown"]
    /\ UNCHANGED <<dbVars, session_status, args, attempt, locks, txn, commits, ncalls>>

(* PATCH /sessions/<session_id>/finish *)
finish_session(p, s) ==
    /\ pc[p] = "idle"
    /\ args' = [args EXCEPT ![p] = [NoArgs EXCEPT !.session_id = s]]
    /\ pc' = [pc EXCEPT ![p] = "finish_select"]
    /\ outcome' = [outcome EXCEPT ![p] = "running"]
    /\ result' = [result EXCEPT ![p] = <<>>]
    /\ attempt' = [attempt EXCEPT ![p] = 0]
    /\ commits' = [commits EXCEPT ![p] = 0]
    /\ ncalls' = [ncalls EXCEPT ![p] = @ + 1]
    /\ UNCHANGED <<dbVars, invalidations, cache, session_status, locks, txn>>

(* mutant: a session is finished whatever its status *)
FinishAllowedAlways(status) == TRUE

(* the status check of finish_session *)
FinishAllowed(status) == status = "in_progress"

(* SELECT exam_sessions ... FOR UPDATE; 404 when there is no row, 400 when
   the status is not in_progress *)
FinishSelect(p) ==
    LET s == args[p].session_id IN
    /\ pc[p] = "finish_select"
    /\ ~Blocked(p)
    /\ locks' = [locks EXCEPT ![p] = @ \cup Wanted(p)]
    /\ IF s \notin Sessions
       THEN /\ outcome' = [outcome EXCEPT ![p] = "not_found"]
            /\ pc' = [pc EXCEPT ![p] = "teardown"]
       ELSE IF ~FinishAllowed(session_status[s])
       THEN /\ outcome' = [outcome EXCEPT ![p] = "bad_request"]
            /\ pc' = [pc EXCEPT ![p] = "teardown"]
       ELSE /\ pc' = [pc EXCEPT ![p] = "finish_commit"]
            /\ UNCHANGED outcome
    /\ UNCHANGED <<dbVars, invalidations, cache, session_status, args, attempt, txn, result, commits, ncalls>>

(* status = "submitted" and db.session.commit(); then session.exam_id is
   read for the refresh *)
FinishCommit(p) ==
    LET s == args[p].session_id IN
    /\ pc[p] = "finish_commit"
    /\ session_status' = [session_status EXCEPT ![s] = "submitted"]
    /\ locks' = [locks EXCEPT ![p] = {}]
    /\ commits' = [commits EXCEPT ![p] = @ + 1]
    /\ args' = [args EXCEPT ![p].exam_id = ExamOf(s)]
    /\ pc' = [pc EXCEPT ![p] = "finish_refresh"]
    /\ UNCHANGED <<dbVars, invalidations, cache, attempt, txn, outcome, result, ncalls>>

(* _invalidate_leaderboard_cache(session.exam_id) and the 200 response *)
FinishInvalidate(p) ==
    LET e == args[p].exam_id IN
    /\ pc[p] = "finish_invalidate"
    /\ invalidations' = [invalidations EXCEPT ![e] = @ + 1]
    /\ cache' = cache_delete(cache, BaseKey(e))
    /\ result' = [result EXCEPT ![p] = <<[session_id |-> args[p].session_id]>>]
    /\ outcome' = [outcome EXCEPT ![p] = "returned"]
    /\ pc' = [pc EXCEPT ![p] = "teardown"]
    /\ UNCHANGED <<dbVars, session_status, args, attempt, locks, txn, commits, ncalls>>


(* POST /sessions *)

(* an exam_id with no exams row *)
MissingExam == NumSessions + 1

(* exams.status of the seeded exams *)
ExamStatus(e) == "active"

(* mutant: the lookup of an existing session finds nothing *)
SessionExistsNever(rows, e, u) == FALSE

(* select(ExamSession).where(exam_id == e, user_id == u) finds a row *)
SessionExists(rows, e, u) ==
    \E i \in DOMAIN rows : rows[i].exam_id = e /\ rows[i].user_id = u

(* UniqueConstraint("exam_id", "user_id", name="uq_exam_user") rejects the row *)
uq_exam_user(rows, e, u) ==
    \E i \in DOMAIN rows : rows[i].exam_id = e /\ rows[i].user_id = u

(* create_session up to the exam check: 404 when there is no such exam,
   400 when it is not active *)
create_session(p, e, u) ==
    /\ pc[p] = "idle"
    /\ args' = [args EXCEPT ![p] = [NoArgs EXCEPT !.exam_id = e, !.user_id = u]]
    /\ result' = [result EXCEPT ![p] = <<>>]
    /\ attempt' = [attempt EXCEPT ![p] = 0]
    /\ commits' = [commits EXCEPT ![p] = 0]
    /\ ncalls' = [ncalls EXCEPT ![p] = @ + 1]
    /\ IF e \notin {ExamOf(s) : s \in Sessions}
       THEN /\ outcome' = [outcome EXCEPT ![p] = "not_found"]
            /\ pc' = [pc EXCEPT ![p] = "teardown"]
       ELSE IF ExamStatus(e) # "active"
       THEN /\ outcome' = [outcome EXCEPT ![p] = "bad_request"]
            /\ pc' = [pc EXCEPT ![p] = "teardown"]
       ELSE /\ outcome' = [outcome EXCEPT ![p] = "running"]
            /\ pc' = [pc EXCEPT ![p] = "create_select"]
    /\ UNCHANGED <<dbVars, invalidations, cache, session_status, locks, txn>>

(* The check for an existing session: a plain SELECT, which under
   SERIALIZABLE is a shared locking read of the (exam_id, user_id) index
   entry or of the gap where it would be; 409 when a row is found *)
CreateSelect(p) ==
    /\ pc[p] = "create_select"
    /\ ~Blocked(p)
    /\ locks' = [locks EXCEPT ![p] = @ \cup Wanted(p)]
    /\ IF SessionExists(exam_sessions, args[p].exam_id, args[p].user_id)
       THEN /\ outcome' = [outcome EXCEPT ![p] = "conflict"]
            /\ pc' = [pc EXCEPT ![p] = "teardown"]
       ELSE /\ pc' = [pc EXCEPT ![p] = "create_insert"]
            /\ UNCHANGED outcome
    /\ UNCHANGED <<dbVars, invalidations, cache, session_status, args, attempt, txn, result, commits, ncalls>>

(* db.session.add(session) and db.session.commit(): the INSERT waits while
   another transaction holds a lock on the index entry or gap; a row that
   violates uq_exam_user raises IntegrityError, which the view does not
   catch; otherwise the row is committed and 201 is returned *)
CreateInsert(p) ==
    LET e == args[p].exam_id
        u == args[p].user_id
    IN
    /\ pc[p] = "create_insert"
    /\ ~Blocked(p)
    /\ IF uq_exam_user(exam_sessions, e, u)
       THEN /\ outcome' = [outcome EXCEPT ![p] = "IntegrityError"]
            /\ pc' = [pc EXCEPT ![p] = "teardown"]
            /\ UNCHANGED <<exam_sessions, locks, commits>>
       ELSE /\ exam_sessions' = Append(exam_sessions, [exam_id |-> e, user_id |-> u])
            /\ locks' = [locks EXCEPT ![p] = {}]
            /\ commits' = [commits EXCEPT ![p] = @ + 1]
            /\ outcome' = [outcome EXCEPT ![p] = "created"]
            /\ pc' = [pc EXCEPT ![p] = "teardown"]
    /\ UNCHANGED <<module_scores, score_audit_log, leaderboard_snapshot, invalidations, cache,
                   session_status, args, attempt, txn, result, ncalls>>

(* The INSERT that waits ends with a lock-wait timeout or as the victim of
   a deadlock: OperationalError, which the view does not catch; the
   server has rolled the transaction back *)
CreateInsertFails(p) ==
    /\ pc[p] = "create_insert"
    /\ Blocked(p)
    /\ locks' = [locks EXCEPT ![p] = {}]
    /\ outcome' = [outcome EXCEPT ![p] = "OperationalError"]
    /\ pc' = [pc EXCEPT ![p] = "teardown"]
    /\ UNCHANGED <<dbVars, invalidations, cache, session_status, args, attempt, txn, result, commits, ncalls>>

(* the HTTP status of the response of create_session; an exception the
   view does not catch is answered with 500 *)
create_session_status(o) ==
    CASE o = "created" -> 201
      [] o = "conflict" -> 409
      [] o = "not_found" -> 404
      [] o = "bad_request" -> 400
      [] OTHER -> 500

(* A bulk import or manual score adjustment ("Useful after bulk imports or
   manual score adjustments"): a transaction outside the service commits a
   new total_score of one leaderboard row and leaves the ranks alone *)
ManualAdjustment(k, score) ==
    /\ k \in DOMAIN leaderboard_snapshot
    /\ leaderboard_snapshot[k].total_score # score
    /\ \A q \in Procs : \A h \in locks[q] : ~Conflicts(Lock("entry", k[1], k[2]), h)
    /\ leaderboard_snapshot' = [leaderboard_snapshot EXCEPT ![k].total_score = score]
    /\ UNCHANGED <<module_scores, score_audit_log, exam_sessions, invalidations, cache, session_status, procVars>>

----------------------------------------------------------------------------
(* one step of worker p inside _atomic_score_update or the retry loop *)
Step(p) ==
    \/ SelectSession(p)
    \/ UpsertModuleScore(p)
    \/ _upsert_leaderboard(p)
    \/ RefreshRanks(p)
    \/ Commit(p)
    \/ _invalidate_leaderboard_cache(p)
    \/ ReRead(p)
    \/ OperationalError(p)

----------------------------------------------------------------------------
(* The service: workers submit scores for any session, concurrently *)

RECURSIVE SumOver(_, _)
SumOver(f, S) ==
    IF S = {} THEN 0
    ELSE LET x == CHOOSE y \in S : TRUE IN f[x] + SumOver(f, S \ {x})

Init ==
    /\ module_scores = NoRows
    /\ score_audit_log = <<>>
    /\ leaderboard_snapshot = NoRows
    /\ invalidations = [e \in {ExamOf(s) : s \in Sessions} |-> 0]
    /\ cache = NoRows
    /\ session_status = [s \in Sessions |-> "in_progress"]
    /\ exam_sessions = [s \in Sessions |-> [exam_id |-> ExamOf(s), user_id |-> UserOf(s)]]
    /\ pc = [p \in Procs |-> "idle"]
    /\ args = [p \in Procs |-> NoArgs]
    /\ attempt = [p \in Procs |-> 0]
    /\ locks = [p \in Procs |-> {}]
    /\ txn = [p \in Procs |-> NoTxn]
    /\ outcome = [p \in Procs |-> "none"]
    /\ result = [p \in Procs |-> <<>>]
    /\ commits = [p \in Procs |-> 0]
    /\ ncalls = [p \in Procs |-> 0]

Call(p) ==
    /\ SumOver(ncalls, Procs) < MaxCalls
    /\ \E s \in SessionInputs, m \in ModuleInputs, raw \in RawInputs,
          max \in MaxScoreInputs, t \in TimeInputs :
          submit_module_score(p, s, m, raw, max, t)

Next == \E p \in Procs : Call(p) \/ Step(p)

Spec == Init /\ [][Next]_vars

----------------------------------------------------------------------------
(* test_parallel_module_submissions_no_data_loss: every candidate's thread
   submits the coding score of its own session once, score 50 + idx and
   time int(score * 10), all started together *)

FirstSubmission(p) ==
    /\ ncalls[p] = 0
    /\ submit_module_score(p, p, "coding", 49 + p, 100, (49 + p) * 10)

NextFirstTime == \E p \in Procs : FirstSubmission(p) \/ Step(p)

SpecFirstTime == Init /\ [][NextFirstTime]_vars

----------------------------------------------------------------------------
(* One worker submitting coding scores for any session, one call after the
   other (test_tie_breaking_by_time) *)

SerialCall ==
    /\ ncalls[1] < MaxSerialCalls
    /\ \E s \in Sessions, raw \in SerialRawInputs, max \in MaxScoreInputs,
          t \in SerialTimeInputs :
          submit_module_score(1, s, "coding", raw, max, t)

NextSerial ==
    \/ SerialCall
    \/ SelectSession(1)
    \/ UpsertModuleScore(1)
    \/ _upsert_leaderboard(1)
    \/ RefreshRanks(1)
    \/ Commit(1)
    \/ _invalidate_leaderboard_cache(1)
    \/ ReRead(1)

SpecSerial == Init /\ [][NextSerial]_vars

----------------------------------------------------------------------------
(* One caller of submit_module_score itself, not of the endpoint: the
   arguments are not filtered by SubmitScoreSchema.  The first three inputs
   are those of test_weighted_score_calculation. *)

DirectInputs ==
    {<<80, 100, 1000>>, <<90, 100, 500>>, <<70, 100, 800>>,
     <<150, 200, 1>>, <<0 - 5, 100, 1>>, <<80, 0, 1>>, <<150, 100, 1>>}

DirectCall ==
    /\ ncalls[1] < MaxCalls
    /\ \E m \in VALID_MODULES, in \in DirectInputs :
          submit_module_score(1, 1, m, in[1], in[2], in[3])

NextDirect ==
    \/ DirectCall
    \/ SelectSession(1)
    \/ UpsertModuleScore(1)
    \/ _upsert_leaderboard(1)
    \/ RefreshRanks(1)
    \/ Commit(1)
    \/ _invalidate_leaderboard_cache(1)
    \/ ReRead(1)

SpecDirect == Init /\ [][NextDirect]_vars

----------------------------------------------------------------------------
(* One client of POST /scores: only a body that SubmitScoreSchema accepts
   reaches submit_module_score (any other is answered 422) *)

(* SubmitScoreSchema, scores in whole points *)
SubmitScoreSchema(m, raw, max, t) ==
    /\ m \in {"coding", "quiz", "assessment"}
    /\ raw >= 0
    /\ max >= 1
    /\ t >= 0
    /\ raw <= max

SchemaCall ==
    /\ ncalls[1] < MaxCalls
    /\ \E m \in ModuleInputs \cup VALID_MODULES, in \in DirectInputs :
          /\ SubmitScoreSchema(m, in[1], in[2], in[3])
          /\ submit_module_score(1, 1, m, in[1], in[2], in[3])

NextSchema ==
    \/ SchemaCall
    \/ SelectSession(1)
    \/ UpsertModuleScore(1)
    \/ _upsert_leaderboard(1)
    \/ RefreshRanks(1)
    \/ Commit(1)
    \/ _invalidate_leaderboard_cache(1)
    \/ ReRead(1)

SpecSchema == Init /\ [][NextSchema]_vars

----------------------------------------------------------------------------
(* Worker 1 submits coding scores for the sessions of exam 1 while worker 2
   serves GET /leaderboard for that exam *)

PageInputs == {1, 2}
PerPageInputs == {1, 2}

ReadSideSubmit ==
    /\ ncalls[1] < MaxCalls
    /\ \E s \in {1, 2}, raw \in RawInputs, max \in MaxScoreInputs, t \in TimeInputs :
          submit_module_score(1, s, "coding", raw, max, t)

ReadSideGet ==
    \E page \in PageInputs, per_page \in PerPageInputs : get_leaderboard(2, 1, page, per_page)

NextRead ==
    \/ ReadSideSubmit
    \/ SelectSession(1)
    \/ UpsertModuleScore(1)
    \/ _upsert_leaderboard(1)
    \/ RefreshRanks(1)
    \/ Commit(1)
    \/ _invalidate_leaderboard_cache(1)
    \/ ReRead(1)
    \/ ReadSideGet
    \/ GetCache(2)
    \/ GetQuery(2)
    \/ CacheTimeout

SpecRead == Init /\ [][NextRead]_vars

----------------------------------------------------------------------------
(* Worker 1 submits coding scores for the sessions of exam 1; worker 2
   serves the recalculate and finish requests; scores are adjusted from
   outside *)

AdjustedScores == {0, 50 * SCALE}

MaintenanceSubmit ==
    /\ ncalls[1] < MaxRequests
    /\ \E s \in {1, 2}, raw \in RawInputs, max \in MaxScoreInputs, t \in TimeInputs :
          submit_module_score(1, s, "coding", raw, max, t)

MaintenanceRequest ==
    /\ ncalls[2] < MaxRequests
    /\ \/ \E e \in {ExamOf(s) : s \in Sessions} : recalculate(2, e)
       \/ \E s \in {1, MissingSession} : finish_session(2, s)

NextMaintenance ==
    \/ MaintenanceSubmit
    \/ SelectSession(1)
    \/ UpsertModuleScore(1)
    \/ _upsert_leaderboard(1)
    \/ RefreshRanks(1)
    \/ Commit(1)
    \/ _invalidate_leaderboard_cache(1)
    \/ ReRead(1)
    \/ MaintenanceRequest
    \/ recalculate_all_ranks(2)
    \/ RecalculateInvalidate(2)
    \/ FinishSelect(2)
    \/ FinishCommit(2)
    \/ FinishInvalidate(2)
    \/ Teardown(2)
    \/ \E k \in DOMAIN leaderboard_snapshot, score \in AdjustedScores : ManualAdjustment(k, score)

SpecMaintenance == Init /\ [][NextMaintenance]_vars

----------------------------------------------------------------------------
(* The session API under concurrency: every worker creates sessions and
   finishes sessions *)

ExamInputs == {1, 2, MissingExam}
UserInputs == {1, NumSessions}

SessionRequest(p) ==
    /\ ncalls[p] < MaxRequests
    /\ \/ \E e \in ExamInputs, u \in UserInputs : create_session(p, e, u)
       \/ \E s \in {1, MissingSession} : finish_session(p, s)

NextSessions ==
    \E p \in Procs :
        \/ SessionRequest(p)
        \/ CreateSelect(p)
        \/ CreateInsert(p)
        \/ CreateInsertFails(p)
        \/ FinishSelect(p)
        \/ FinishCommit(p)
        \/ recalculate_all_ranks(p)
        \/ FinishInvalidate(p)
        \/ Teardown(p)

SpecSessions == Init /\ [][NextSessions]_vars

----------------------------------------------------------------------------
(* Every operation that runs while audit rows are stored: both workers
   submit scores of one module of session 1, with conflicts and retried
   attempts, finish the session and ask for a rank refresh *)

AuditedRequest(p) ==
    /\ SumOver(ncalls, Procs) < MaxCalls
    /\ \/ \E raw \in SerialRawInputs, t \in TimeInputs :
             submit_module_score(p, 1, "coding", raw, 100, t)
       \/ finish_session(p, 1)
       \/ recalculate(p, ExamOf(1))

NextAudited ==
    \E p \in Procs :
        \/ AuditedRequest(p)
        \/ SelectSession(p)
        \/ UpsertModuleScore(p)
        \/ _upsert_leaderboard(p)
        \/ RefreshRanks(p)
        \/ Commit(p)
        \/ _invalidate_leaderboard_cache(p)
        \/ ReRead(p)
        \/ (pc[p] \in {"select_session", "select_module", "upsert_leaderboard",
                       "refresh_ranks", "reread"} /\ OperationalError(p))
        \/ FinishSelect(p)
        \/ FinishCommit(p)
        \/ recalculate_all_ranks(p)
        \/ FinishInvalidate(p)
        \/ RecalculateInvalidate(p)
        \/ Teardown(p)

SpecAudited == Init /\ [][NextAudited]_vars

----------------------------------------------------------------------------
(* The engine on a store that takes no row locks: with TestingConfig the
   database is SQLite, for which with_for_update() renders nothing, so a
   transaction holds no lock on the rows it has read *)

LocksNotHeld(p) ==
    /\ locks[p] # {}
    /\ locks' = [locks EXCEPT ![p] = {}]
    /\ UNCHANGED <<dbVars, invalidations, cache, session_status, pc, args, attempt, txn,
                   outcome, result, commits, ncalls>>

(* the transaction of worker p inserts a row whose key another
   transaction has inserted since: uq_session_module or uq_leaderboard
   rejects it *)
UniqueViolation(p) ==
    \/ \E k \in DOMAIN txn[p].ms : txn[p].ms[k].version = 1 /\ k \in DOMAIN module_scores
    \/ \E k \in DOMAIN txn[p].entry :
          txn[p].entry[k].rank_position = 0 /\ k \in DOMAIN leaderboard_snapshot

(* IntegrityError at the flush of the commit: no OperationalError, so the
   call ends with it *)
IntegrityError(p) ==
    /\ pc[p] = "commit"
    /\ UniqueViolation(p)
    /\ locks' = [locks EXCEPT ![p] = {}]
    /\ txn' = [txn EXCEPT ![p] = NoTxn]
    /\ outcome' = [outcome EXCEPT ![p] = "IntegrityError"]
    /\ pc' = [pc EXCEPT ![p] = "idle"]
    /\ UNCHANGED <<dbVars, invalidations, cache, session_status, args, attempt, result, commits, ncalls>>

UnlockedCall(p) ==
    /\ SumOver(ncalls, Procs) < MaxCalls
    /\ \E raw \in RawInputs, t \in TimeInputs :
          submit_module_score(p, 1, "coding", raw, 100, t)

NextUnlocked ==
    \E p \in Procs :
        \/ UnlockedCall(p)
        \/ LocksNotHeld(p)
        \/ SelectSession(p)
        \/ UpsertModuleScore(p)
        \/ _upsert_leaderboard(p)
        \/ RefreshRanks(p)
        \/ (~UniqueViolation(p) /\ Commit(p))
        \/ IntegrityError(p)
        \/ _invalidate_leaderboard_cache(p)
        \/ ReRead(p)
        \/ OperationalError(p)

SpecUnlocked == Init /\ [][NextUnlocked]_vars

----------------------------------------------------------------------------
(* Termination of submit_module_score.  Both workers submit, for a stored
   and for a missing session, and finish sessions.  A worker thread that
   runs the engine keeps running: the statement it is at is executed when
   its locks are free, and a statement that waits for a lock ends with the
   store's lock-wait timeout or deadlock error (OperationalError).
   Nothing is assumed about the other requests: a finish may hold the
   session row as long as it likes. *)

SubmitPositions ==
    {"select_session", "select_module", "upsert_leaderboard", "refresh_ranks",
     "commit", "invalidate", "reread"}

SubmitStep(p) ==
    \/ SelectSession(p)
    \/ UpsertModuleScore(p)
    \/ _upsert_leaderboard(p)
    \/ RefreshRanks(p)
    \/ Commit(p)
    \/ _invalidate_leaderboard_cache(p)
    \/ ReRead(p)
    \/ (pc[p] \in SubmitPositions /\ OperationalError(p))

LiveRequest(p) ==
    /\ SumOver(ncalls, Procs) < MaxCalls
    /\ \/ \E s \in {1, MissingSession}, raw \in RawInputs, t \in TimeInputs :
             submit_module_score(p, s, "coding", raw, 100, t)
       \/ finish_session(p, 1)

NextLive ==
    \E p \in Procs :
        \/ LiveRequest(p)
        \/ SubmitStep(p)
        \/ FinishSelect(p)
        \/ FinishCommit(p)
        \/ recalculate_all_ranks(p)
        \/ FinishInvalidate(p)
        \/ Teardown(p)

SpecLive == Init /\ [][NextLive]_vars /\ \A p \in Procs : WF_vars(SubmitStep(p))

----------------------------------------------------------------------------
(* Concurrent first submissions, for a session that exists or not, over a
   storage layer that can fail *)

FaultyCall(p) ==
    /\ ncalls[p] = 0
    /\ \E s \in {p, MissingSession} : submit_module_score(p, s, "coding", 80, 100, 1)

NextFaults == \E p \in Procs : FaultyCall(p) \/ Step(p) \/ StorageFailure(p)

SpecFaults == Init /\ [][NextFaults]_vars

----------------------------------------------------------------------------
(* Properties *)

Exams == {ExamOf(s) : s \in Sessions}

(* every call has returned or failed and no transaction is open *)
Settled == \A p \in Procs : pc[p] = "idle"

(* every worker has made its one call and the call has finished *)
AllFinished == \A p \in Procs : ncalls[p] = 1 /\ pc[p] = "idle"

(* C1: under SpecFirstTime (N concurrent first-time coding submissions for N
   distinct sessions of one exam), once all calls have finished the exam has
   exactly N leaderboard rows, and each row holds the weighted components,
   total and time computed from its own session's submitted score: with
   weight 50 and maximum 100, weighted_coding = total_score = raw * 50 / 100
   (raw * 5000 in units of 0.0001), the other components 0, and
   total_time_sec = the submitted time. *)
C1_NoLostUpdate ==
    AllFinished =>
        /\ DOMAIN leaderboard_snapshot = {<<ExamOf(p), UserOf(p)>> : p \in Procs}
        /\ \A p \in Procs :
              LET row == leaderboard_snapshot[<<ExamOf(p), UserOf(p)>>] IN
              /\ row.session_id = p
              /\ row.weighted_coding = args[p].raw_score * 5000
              /\ row.weighted_quiz = 0
              /\ row.weighted_assessment = 0
              /\ row.total_score = args[p].raw_score * 5000
              /\ row.total_time_sec = args[p].time_spent_sec

(* C2: under SpecFirstTime every submit_module_score call returns a
   leaderboard entry; none ends with an error, in particular none raises
   RuntimeError after using up its 3 attempts. *)
C2_EveryCallReturns ==
    \A p \in Procs :
        (ncalls[p] = 1 /\ pc[p] = "idle") =>
            (outcome[p] = "returned" /\ Len(result[p]) = 1)

(* the committed leaderboard rows of exam e *)
ExamRows(e) ==
    [k \in {x \in DOMAIN leaderboard_snapshot : x[1] = e} |-> leaderboard_snapshot[k]]

(* row a is ahead of row b under (total_score descending, total_time_sec ascending) *)
StrictlyAhead(a, b) ==
    \/ a.total_score > b.total_score
    \/ a.total_score = b.total_score /\ a.total_time_sec < b.total_time_sec

SamePair(a, b) ==
    a.total_score = b.total_score /\ a.total_time_sec = b.total_time_sec

RanksOf(rows) == {rows[k].rank_position : k \in DOMAIN rows}

(* the rank_position values of rows are a dense ranking of them *)
ValidDenseRanking(rows) ==
    /\ \A j \in DOMAIN rows : \A k \in DOMAIN rows :
          /\ SamePair(rows[j], rows[k]) => rows[j].rank_position = rows[k].rank_position
          /\ StrictlyAhead(rows[j], rows[k]) => rows[j].rank_position < rows[k].rank_position
    /\ RanksOf(rows) = 1..Cardinality(RanksOf(rows))

(* C3: once concurrent submissions have settled (every call has returned or
   failed, no transaction is open), the stored rank_position values of each
   exam are a valid dense ranking of its leaderboard rows by (total_score
   descending, total_time_sec ascending). *)
C3_SettledRanking ==
    Settled => \A e \in Exams : ValidDenseRanking(ExamRows(e))

(* two rows of different rank, after a call that was retried and returned *)
C3_Witness ==
    /\ Settled
    /\ \E p \in Procs : attempt[p] > 1 /\ outcome[p] = "returned"
    /\ {1, 2} \subseteq RanksOf(ExamRows(1))

SameScores(a, b) ==
    /\ a.weighted_coding = b.weighted_coding
    /\ a.weighted_quiz = b.weighted_quiz
    /\ a.weighted_assessment = b.weighted_assessment
    /\ a.total_score = b.total_score
    /\ a.total_time_sec = b.total_time_sec

(* every committed state is completely ranked, whether or not transactions are open *)
C4_Visible == \A e \in Exams : ValidDenseRanking(ExamRows(e))

(* a change of the committed leaderboard rows is the whole of one
   transaction's upsert and refresh *)
C4_Step ==
    leaderboard_snapshot' # leaderboard_snapshot =>
        \E p \in Procs :
            LET e == ExamOf(args[p].session_id)
                k == <<e, UserOf(args[p].session_id)>>
            IN
            /\ pc[p] = "commit" /\ pc'[p] = "invalidate"
            /\ DOMAIN leaderboard_snapshot' = DOMAIN leaderboard_snapshot \cup {k}
            /\ SameScores(leaderboard_snapshot'[k], txn[p].entry[k])
            /\ \A j \in DOMAIN leaderboard_snapshot \ {k} :
                  SameScores(leaderboard_snapshot'[j], leaderboard_snapshot[j])
            /\ \A j \in DOMAIN leaderboard_snapshot' :
                  IF j[1] = e
                  THEN /\ j \in DOMAIN txn[p].ranks
                       /\ leaderboard_snapshot'[j].rank_position = txn[p].ranks[j]
                  ELSE leaderboard_snapshot'[j].rank_position
                          = leaderboard_snapshot[j].rank_position

(* C4: no reader observes a partially applied rank refresh: a committed
   state of an exam's leaderboard rows holds all score and rank writes of a
   submission's upsert and refresh or none of them, and the ranks of every
   committed state are those of one complete refresh. *)
C4_NoPartialRefresh == []C4_Visible /\ [][C4_Step]_vars

(* a commit that wrote ranks of two rows while another transaction is open *)
C4_Witness ==
    \E p \in Procs : \E q \in Procs \ {p} :
        /\ pc[p] = "invalidate"
        /\ pc[q] \in {"upsert_leaderboard", "refresh_ranks"}
        /\ {1, 2} \subseteq RanksOf(ExamRows(1))

(* the distinct (total_score, total_time_sec) pairs of rows *)
PairsOf(rows) ==
    {<<rows[k].total_score, rows[k].total_time_sec>> : k \in DOMAIN rows}

(* the distinct pairs of rows that order strictly before the pair of row r *)
PairsAhead(rows, r) ==
    {pr \in PairsOf(rows) :
        \/ pr[1] > r.total_score
        \/ pr[1] = r.total_score /\ pr[2] < r.total_time_sec}

RankedByCount(rows) ==
    /\ \A k \in DOMAIN rows :
          rows[k].rank_position = 1 + Cardinality(PairsAhead(rows, rows[k]))
    /\ Cardinality(RanksOf(rows)) = Cardinality(PairsOf(rows))

(* C5: after a rank refresh of an exam, each entry's rank_position is 1 plus
   the number of distinct (total_score, total_time_sec) pairs of the exam
   that order strictly before its own pair, and the number of distinct
   rank_position values equals the number of distinct pairs.  Checked of the
   ranks a transaction has computed (its refresh is done, its commit is
   not) and of every committed state, under SpecSerial. *)
C5_DenseRankByCount ==
    /\ \A e \in Exams : RankedByCount(ExamRows(e))
    /\ \A p \in Procs :
          pc[p] = "commit" =>
              LET e == ExamOf(args[p].session_id)
                  seen == OfExam(TxnRows(p), e)
              IN /\ DOMAIN txn[p].ranks = DOMAIN seen
                 /\ RankedByCount([k \in DOMAIN seen |->
                        [seen[k] EXCEPT !.rank_position = txn[p].ranks[k]]])

(* three rows after a refresh: two tied on rank 1 and one on rank 2 *)
C5_Witness ==
    /\ pc[1] = "invalidate"
    /\ Cardinality(DOMAIN leaderboard_snapshot) = 3
    /\ Cardinality(PairsOf(ExamRows(1))) = 2
    /\ \E j \in DOMAIN leaderboard_snapshot : \E k \in DOMAIN leaderboard_snapshot :
          /\ j # k
          /\ leaderboard_snapshot[j].rank_position = 1
          /\ leaderboard_snapshot[k].rank_position = 1

(* C6: for any two leaderboard rows of an exam with equal total_score, the
   row with the smaller total_time_sec has a rank_position less than or
   equal to the other's, and strictly smaller when the times differ.
   Checked of every committed state under SpecSerial. *)
C6_TieBreakByTime ==
    \A j \in DOMAIN leaderboard_snapshot : \A k \in DOMAIN leaderboard_snapshot :
        LET a == leaderboard_snapshot[j]
            b == leaderboard_snapshot[k]
        IN (j[1] = k[1] /\ a.total_score = b.total_score) =>
              /\ a.total_time_sec <= b.total_time_sec => a.rank_position <= b.rank_position
              /\ a.total_time_sec < b.total_time_sec => a.rank_position < b.rank_position

(* two rows of equal positive total_score and different times *)
C6_Witness ==
    \E j \in DOMAIN leaderboard_snapshot : \E k \in DOMAIN leaderboard_snapshot :
        /\ leaderboard_snapshot[j].total_score = leaderboard_snapshot[k].total_score
        /\ leaderboard_snapshot[j].total_score > 0
        /\ leaderboard_snapshot[j].total_time_sec < leaderboard_snapshot[k].total_time_sec
        /\ leaderboard_snapshot[j].rank_position < leaderboard_snapshot[k].rank_position

(* C7, the attempts of one call: never more than 3, and RuntimeError only
   from the third *)
C7_Bounded ==
    \A p \in Procs :
        /\ attempt[p] <= 3
        /\ outcome[p] = "RuntimeError" => attempt[p] = 3

(* C7, one step: a new attempt of a running call starts only after a failed
   attempt that was not the third, with the transaction rolled back, from
   the session-row lock; RuntimeError is raised only by the failure of the
   third attempt, and then nothing more runs *)
C7_Step ==
    \A p \in Procs :
        /\ (pc[p] # "idle" /\ attempt'[p] # attempt[p]) =>
              /\ Blocked(p)
              /\ attempt[p] < 3
              /\ attempt'[p] = attempt[p] + 1
              /\ pc'[p] = "select_session"
              /\ locks'[p] = {}
              /\ txn'[p] = NoTxn
              /\ outcome'[p] = "running"
              /\ UNCHANGED dbVars
        /\ (outcome[p] # "RuntimeError" /\ outcome'[p] = "RuntimeError") =>
              /\ Blocked(p)
              /\ attempt[p] = 3
              /\ attempt'[p] = 3
              /\ pc'[p] = "idle"
              /\ locks'[p] = {}
              /\ txn'[p] = NoTxn
              /\ UNCHANGED dbVars
        /\ (Blocked(p) /\ pc'[p] # pc[p]) =>
              /\ locks'[p] = {}
              /\ txn'[p] = NoTxn
              /\ IF attempt[p] = 3
                 THEN outcome'[p] = "RuntimeError" /\ pc'[p] = "idle"
                 ELSE attempt'[p] = attempt[p] + 1 /\ pc'[p] = "select_session"

(* C7: submit_module_score makes at most 3 attempts of the atomic update; an
   attempt that fails with a lock conflict is rolled back and the sequence
   is retried from the session-row lock; when the third attempt fails with
   a conflict the call raises RuntimeError and no fourth attempt is made. *)
C7_AtMostThreeAttempts == []C7_Bounded /\ [][C7_Step]_vars

(* a call that failed three times and raised RuntimeError *)
C7_Witness ==
    \E p \in Procs :
        /\ outcome[p] = "RuntimeError"
        /\ attempt[p] = 3
        /\ pc[p] = "idle"
        /\ commits[p] = 0

(* C8: under SpecFirstTime, after a call that ended in RuntimeError the
   committed rows are those from before the call: the call's session, which
   no other call writes, has no committed ModuleScore row, no audit entry
   and no leaderboard row. *)
C8_FailedCallLeavesNothing ==
    \A p \in Procs :
        outcome[p] = "RuntimeError" =>
            /\ <<p, "coding">> \notin DOMAIN module_scores
            /\ \A i \in 1..Len(score_audit_log) : score_audit_log[i].session_id # p
            /\ <<ExamOf(p), UserOf(p)>> \notin DOMAIN leaderboard_snapshot

(* C9: under SpecFirstTime, no call commits its update more than once (the
   version of its module row stays 1 and it has one audit entry at most),
   and no call that has committed reports a failure. *)
C9_CommitOnceAndReportIt ==
    \A p \in Procs :
        /\ commits[p] <= 1
        /\ <<p, "coding">> \in DOMAIN module_scores => module_scores[<<p, "coding">>].version = 1
        /\ Cardinality({i \in 1..Len(score_audit_log) : score_audit_log[i].changed_by = p}) <= 1
        /\ outcome[p] \in {"RuntimeError", "NoResultFound", "ValueError"} => commits[p] = 0

(* C10, the state of a worker whose last call had an invalid module type *)
C10_Rejected ==
    \A p \in Procs :
        (ncalls[p] > 0 /\ args[p].module_type \notin {"coding", "quiz", "assessment"}) =>
            /\ outcome[p] = "ValueError"
            /\ pc[p] = "idle"
            /\ attempt[p] = 0
            /\ commits[p] = 0
            /\ locks[p] = {}
            /\ txn[p] = NoTxn

(* C10, the call itself: it changes no row, no lock and no cache state *)
C10_Step ==
    \A p \in Procs :
        (ncalls'[p] # ncalls[p] /\ args'[p].module_type \notin {"coding", "quiz", "assessment"}) =>
            /\ outcome'[p] = "ValueError"
            /\ pc'[p] = "idle"
            /\ attempt'[p] = 0
            /\ UNCHANGED <<dbVars, invalidations, cache, session_status, locks, txn>>

(* C10: submit_module_score with a module_type outside {coding, quiz,
   assessment} fails with ValueError before any lock is taken or row is
   read or written: no attempt is started, nothing is retried, and no
   ModuleScore, audit, leaderboard or cache state changes. *)
C10_InvalidModuleRejected == []C10_Rejected /\ [][C10_Step]_vars

(* a rejected call while rows are stored and another call is in its
   transaction *)
C10_Witness ==
    \E p \in Procs : \E q \in Procs \ {p} :
        /\ outcome[p] = "ValueError"
        /\ args[p].module_type = "essay"
        /\ DOMAIN module_scores # {}
        /\ locks[q] # {}

(* the preconditions of a submission on its scores *)
ScoreBoundsOK(raw, max) == raw >= 0 /\ max > 0 /\ raw <= max

(* C11: under SpecDirect, a call of submit_module_score with raw_score < 0,
   max_score <= 0 or raw_score > max_score fails with ValueError and
   changes no state: the call is not running or returned, it committed
   nothing, and no stored ModuleScore row or audit entry holds such
   scores. *)
C11_ScoreBoundsRechecked ==
    /\ \A p \in Procs :
          (ncalls[p] > 0 /\ ~ScoreBoundsOK(args[p].raw_score, args[p].max_score)) =>
              /\ outcome[p] = "ValueError"
              /\ pc[p] = "idle"
              /\ commits[p] = 0
    /\ \A k \in DOMAIN module_scores :
          ScoreBoundsOK(module_scores[k].raw_score, module_scores[k].max_score)
    /\ \A i \in 1..Len(score_audit_log) : score_audit_log[i].new_score >= 0

(* the statuses by which POST /scores rejects a request, with a reason *)
RejectedStatuses == {400, 404, 422}

(* C12: a call for a session_id without an exam_sessions row fails with
   the not-found error after a single attempt and without a commit, and
   POST /scores reports it as a rejected request, not with the status of an
   unexpected internal failure (500). *)
C12_NotFoundRejected ==
    \A p \in Procs :
        outcome[p] = "NoResultFound" =>
            /\ attempt[p] = 1
            /\ commits[p] = 0
            /\ locks[p] = {}
            /\ txn[p] = NoTxn
            /\ submit_score(outcome[p]) \in RejectedStatuses
            /\ submit_score(outcome[p]) # submit_score("Exception")

(* C13, one step: a failure that is followed by another attempt is a lock
   conflict, and the not-found failure ends the call with the attempt in
   which it occurs *)
C13_Step ==
    \A p \in Procs :
        /\ (pc[p] # "idle" /\ attempt'[p] = attempt[p] + 1) => Blocked(p)
        /\ (outcome[p] # "NoResultFound" /\ outcome'[p] = "NoResultFound") =>
              /\ attempt'[p] = attempt[p]
              /\ pc'[p] = "idle"

(* C13: only lock conflicts are retried: every failure that is followed by
   another attempt is a lock conflict, and an attempt that fails for another
   reason ends the call. *)
C13_OnlyConflictsRetried == [][C13_Step]_vars

(* the committed submissions of exam e: every commit of a submission appends
   one audit entry *)
CommittedSubmissions(e) ==
    {i \in 1..Len(score_audit_log) : ExamOf(score_audit_log[i].session_id) = e}

(* the workers that have committed a submission of exam e and not yet
   emitted its invalidation *)
InvalidationDue(e) ==
    {p \in Procs : pc[p] = "invalidate" /\ ExamOf(args[p].session_id) = e}

(* C14, the count: per exam, one invalidation for every committed
   submission, but for those whose invalidation is the next statement *)
C14_OncePerCommit ==
    \A e \in Exams :
        invalidations[e] + Cardinality(InvalidationDue(e))
            = Cardinality(CommittedSubmissions(e))

(* C14, one step: the signal is emitted by a worker that has committed and
   holds no open transaction, for the exam of its session and nothing else;
   a step that rolls an attempt back emits none *)
C14_Step ==
    /\ invalidations' # invalidations =>
          \E p \in Procs :
              /\ pc[p] = "invalidate"
              /\ pc'[p] = "reread"
              /\ commits[p] >= 1
              /\ locks[p] = {}
              /\ txn[p] = NoTxn
              /\ invalidations' =
                    [invalidations EXCEPT ![ExamOf(args[p].session_id)] = @ + 1]
              /\ cache' = cache_delete(cache, BaseKey(ExamOf(args[p].session_id)))
              /\ UNCHANGED dbVars
    /\ \A p \in Procs :
          (attempt'[p] = attempt[p] + 1 \/ (outcome[p] = "running" /\ outcome'[p] = "RuntimeError"))
              => UNCHANGED <<invalidations, cache>>

(* C14: submit emits the cache invalidation only after the transaction of
   the submission has committed, exactly once per committed submission and
   keyed by the exam of the submitted session; an attempt that is rolled
   back emits no invalidation. *)
C14_InvalidateAfterCommit == []C14_OncePerCommit /\ [][C14_Step]_vars

(* both exams have had a committed submission and its invalidation, and a
   worker has had an attempt rolled back *)
C14_Witness ==
    /\ invalidations[1] >= 1
    /\ invalidations[2] >= 1
    /\ \E p \in Procs : attempt[p] >= 2 /\ commits[p] = 0 /\ pc[p] # "idle"

(* the pages (page, per_page) of exam e that the committed rows give *)
CommittedPages(e, page, per_page) ==
    {PageOf(ExamRows(e), order, page, per_page) : order \in PageOrders(ExamRows(e))}

(* C15, one step: a response of GET /leaderboard for an exam none of whose
   committed submissions still has its invalidation to come *)
C15_Step ==
    \A p \in Procs :
        (/\ pc[p] \in {"get_cache", "get_query"}
         /\ pc'[p] = "idle"
         /\ InvalidationDue(args[p].exam_id) = {}) =>
            /\ result'[p][1].leaderboard
                  \in CommittedPages(args[p].exam_id, args[p].page, args[p].per_page)
            /\ result'[p][1].total_participants = Cardinality(DOMAIN ExamRows(args[p].exam_id))

(* C15: once a submission for an exam has committed and its invalidation
   has fired, no page of that exam cached before the commit is served any
   more: a leaderboard read for the exam, for any page and per_page,
   returns the committed entries. *)
C15_NoStalePageAfterInvalidation == [][C15_Step]_vars

(* rows after recalculate_all_ranks(e) has run on them and its writes are
   in place *)
Recalculated(rows, e) == Installed(rows, [NoTxn EXCEPT !.ranks = _refresh_ranks(rows, e)])

(* C16: recalculate_all_ranks(exam_id) is idempotent: on the committed rows
   of every reachable state, and on the rows a request sees, a second call
   with no score or time changed in between leaves every rank_position of
   every exam as the first call left it. *)
C16_RecalculateIdempotent ==
    \A e \in Exams :
        /\ Recalculated(Recalculated(leaderboard_snapshot, e), e)
              = Recalculated(leaderboard_snapshot, e)
        /\ \A p \in Procs :
              (pc[p] \in {"recalc_invalidate", "finish_invalidate"} /\ args[p].exam_id = e) =>
                  _refresh_ranks(Installed(leaderboard_snapshot, txn[p]), e) = txn[p].ranks

(* a request has run the refresh, and the refresh changes a stored rank *)
C16_Witness ==
    \E p \in Procs :
        /\ pc[p] = "recalc_invalidate"
        /\ Cardinality(DOMAIN txn[p].ranks) >= 2
        /\ \E k \in DOMAIN txn[p].ranks :
              txn[p].ranks[k] # leaderboard_snapshot[k].rank_position

(* C17, one step: a request that has run the standalone refresh of an exam
   completes *)
C17_Step ==
    \A p \in Procs :
        (/\ pc[p] = "teardown"
         /\ pc'[p] = "idle"
         /\ Lock("exam", args[p].exam_id, 0) \in locks[p]) =>
            ValidDenseRanking(ExamRows(args[p].exam_id))'

(* C17: run standalone (by the recalculate endpoint, or after a session
   finish), the rank refresh takes effect in the stored data: when the
   request has completed, the committed rank_position values of the exam
   are a valid dense ranking of its committed entries. *)
C17_StandaloneRefreshTakesEffect == [][C17_Step]_vars

(* C18, the state of a finish request: a rejected one has neither run a
   refresh nor committed; one that is past its commit has stored the
   terminal status *)
C18_State ==
    \A p \in Procs :
        /\ outcome[p] \in {"not_found", "bad_request"} =>
              /\ txn[p].ranks = NoRows
              /\ commits[p] = 0
              /\ pc[p] \in {"teardown", "idle"}
        /\ pc[p] \in {"finish_refresh", "finish_invalidate"} =>
              /\ session_status[args[p].session_id] = "submitted"
              /\ commits[p] = 1
              /\ args[p].exam_id = ExamOf(args[p].session_id)

(* C18, one step of a finish request *)
C18_Step ==
    \A p \in Procs :
        LET s == args[p].session_id IN
        /\ (pc[p] = "finish_select" /\ pc'[p] # pc[p]) =>
              IF s \in Sessions /\ session_status[s] = "in_progress"
              THEN /\ pc'[p] = "finish_commit"
                   /\ UNCHANGED <<session_status, invalidations, cache, txn>>
              ELSE /\ pc'[p] = "teardown"
                   /\ outcome'[p] = IF s \in Sessions THEN "bad_request" ELSE "not_found"
                   /\ UNCHANGED <<dbVars, session_status, invalidations, cache, txn>>
        /\ (pc[p] = "finish_commit" /\ pc'[p] # pc[p]) =>
              /\ session_status' = [session_status EXCEPT ![s] = "submitted"]
              /\ pc'[p] = "finish_refresh"
              /\ txn[p].ranks = NoRows
              /\ UNCHANGED <<invalidations, cache, txn>>
        /\ (pc[p] = "finish_refresh" /\ pc'[p] # pc[p]) =>
              /\ txn'[p].ranks = _refresh_ranks(leaderboard_snapshot, ExamOf(s))
              /\ pc'[p] = "finish_invalidate"
              /\ UNCHANGED <<session_status, invalidations, cache>>
        /\ (pc[p] = "finish_invalidate" /\ pc'[p] # pc[p]) =>
              /\ DOMAIN txn[p].ranks = DOMAIN ExamRows(ExamOf(s))
              /\ invalidations' = [invalidations EXCEPT ![ExamOf(s)] = @ + 1]
              /\ cache' = cache_delete(cache, BaseKey(ExamOf(s)))
              /\ outcome'[p] = "returned"
              /\ pc'[p] = "teardown"
        /\ (pc[p] = "teardown" /\ pc'[p] # pc[p] /\ outcome[p] \in {"not_found", "bad_request"}) =>
              UNCHANGED <<dbVars, session_status, invalidations, cache>>

(* C18: a successful finish_session first commits the terminal status of
   the session, then runs the rank refresh of the session's exam, then
   fires the cache invalidation of that exam; a rejected finish (unknown
   session, or status not in_progress) triggers neither a refresh nor an
   invalidation. *)
C18_FinishOrder == []C18_State /\ [][C18_Step]_vars

(* a finish has been answered with success over a leaderboard with rows,
   after its commit, its refresh and its invalidation *)
C18_Witness ==
    \E p \in Procs :
        /\ pc[p] = "teardown"
        /\ outcome[p] = "returned"
        /\ args[p].session_id \in Sessions
        /\ session_status[args[p].session_id] = "submitted"
        /\ DOMAIN txn[p].ranks # {}
        /\ invalidations[ExamOf(args[p].session_id)] >= 1

(* the stored module rows of session s, by module type *)
StoredModules(s) ==
    [m \in {x \in VALID_MODULES : <<s, x>> \in DOMAIN module_scores} |-> module_scores[<<s, m>>]]

(* (raw / max) * weight of one stored module row, max being the exam's
   configured maximum, rounded half-up to 4 fractional digits *)
ExpectedWeighted(s, m) ==
    RoundHalfUp(module_scores[<<s, m>>].raw_score * Weight(ExamOf(s), m) * SCALE,
                MaxScore(ExamOf(s), m))

(* C19: under SpecSchema, for a session whose three modules are stored, submitted within the
   score bounds and against the exam's configured maxima, the stored
   total_score is the sum over the three modules of (raw / max) * weight,
   each term rounded half-up to 4 fractional digits, and total_time_sec is
   the sum of the three time_spent_sec. *)
C19_TotalOfThreeModules ==
    \A s \in Sessions :
        (/\ DOMAIN StoredModules(s) = VALID_MODULES
         /\ \A m \in VALID_MODULES :
               /\ ScoreBoundsOK(module_scores[<<s, m>>].raw_score, module_scores[<<s, m>>].max_score)
               /\ module_scores[<<s, m>>].max_score = MaxScore(ExamOf(s), m)) =>
            LET entry == leaderboard_snapshot[<<ExamOf(s), UserOf(s)>>] IN
            /\ entry.total_score = ExpectedWeighted(s, "coding") + ExpectedWeighted(s, "quiz")
                                      + ExpectedWeighted(s, "assessment")
            /\ entry.total_time_sec = module_scores[<<s, "coding">>].time_spent_sec
                                         + module_scores[<<s, "quiz">>].time_spent_sec
                                         + module_scores[<<s, "assessment">>].time_spent_sec

(* C20: under SpecSchema (every submission satisfies the submit
   preconditions), while every stored submission of a session satisfies the submit
   preconditions (raw_score >= 0, max_score > 0, raw_score <= max_score),
   the session's leaderboard entry has 0 <= total_score <= 100 and every
   weighted_m within [0, weight_m]. *)
C20_ScoresWithinRange ==
    \A k \in DOMAIN leaderboard_snapshot :
        LET entry == leaderboard_snapshot[k]
            s == entry.session_id
        IN (\A m \in DOMAIN StoredModules(s) :
                ScoreBoundsOK(module_scores[<<s, m>>].raw_score, module_scores[<<s, m>>].max_score)) =>
              /\ 0 <= entry.total_score /\ entry.total_score <= 100 * SCALE
              /\ 0 <= entry.weighted_coding /\ entry.weighted_coding <= Weight(k[1], "coding") * SCALE
              /\ 0 <= entry.weighted_quiz /\ entry.weighted_quiz <= Weight(k[1], "quiz") * SCALE
              /\ 0 <= entry.weighted_assessment
              /\ entry.weighted_assessment <= Weight(k[1], "assessment") * SCALE

----------------------------------------------------------------------------
(* The weighted component of module m in a leaderboard entry *)
WeightedOf(entry, m) ==
    CASE m = "coding" -> entry.weighted_coding
      [] m = "quiz" -> entry.weighted_quiz
      [] OTHER -> entry.weighted_assessment

(* the time_spent_sec of the module rows stored for session s, summed *)
StoredTime(s) ==
    SumOver([m \in DOMAIN StoredModules(s) |-> module_scores[<<s, m>>].time_spent_sec],
            DOMAIN StoredModules(s))

(* C21: under SpecSchema, in every committed state a module never
   submitted for a session has weighted component 0 in the session's
   entry, the entry's total_time_sec is the sum of time_spent_sec over
   exactly the stored modules, and a session with only coding stored
   (raw 80 of 100, weight 50) has weighted_coding 40.0000, the other
   components 0, total_score 40.0000 and coding's time. *)
C21_UnsubmittedContributeNothing ==
    \A k \in DOMAIN leaderboard_snapshot :
        LET entry == leaderboard_snapshot[k]
            s == entry.session_id
        IN /\ \A m \in VALID_MODULES \ DOMAIN StoredModules(s) : WeightedOf(entry, m) = 0
           /\ entry.total_time_sec = StoredTime(s)
           /\ (/\ DOMAIN StoredModules(s) = {"coding"}
               /\ module_scores[<<s, "coding">>].raw_score = 80
               /\ Weight(k[1], "coding") = 50
               /\ MaxScore(k[1], "coding") = 100) =>
                 /\ entry.weighted_coding = 40 * SCALE
                 /\ entry.weighted_quiz = 0
                 /\ entry.weighted_assessment = 0
                 /\ entry.total_score = 40 * SCALE
                 /\ entry.total_time_sec = module_scores[<<s, "coding">>].time_spent_sec

(* the commit step of worker p's submission *)
CommitStep(p) == pc[p] = "commit" /\ pc'[p] = "invalidate"

C22_Step ==
    \A p \in Procs :
        LET s == args[p].session_id
            k == <<s, args[p].module_type>>
            ek == <<ExamOf(s), UserOf(s)>>
        IN (/\ CommitStep(p)
            /\ k \in DOMAIN module_scores
            /\ module_scores[k].raw_score = args[p].raw_score) =>
              /\ module_scores'[k].version = module_scores[k].version + 1
              /\ Len(score_audit_log') = Len(score_audit_log) + 1
              /\ score_audit_log'[Len(score_audit_log')].old_score = <<args[p].raw_score>>
              /\ score_audit_log'[Len(score_audit_log')].new_score = args[p].raw_score
              /\ leaderboard_snapshot'[ek].total_score = leaderboard_snapshot[ek].total_score

(* C22: under SpecSchema, a committed resubmission of a module with the
   raw score already stored for it increments the row's version by exactly
   1, appends exactly one audit entry, whose old_score equals its
   new_score, and leaves the total_score of the session's entry as it
   was. *)
C22_SameScoreResubmission == [][C22_Step]_vars

C23_Step ==
    \A p \in Procs :
        LET s == args[p].session_id
            m == args[p].module_type
            k == <<ExamOf(s), UserOf(s)>>
            r == result'[p][1]
        IN (pc[p] = "reread" /\ outcome'[p] = "returned") =>
              /\ r = _serialise_leaderboard_entry(k, leaderboard_snapshot[k])
              /\ WeightedOf(r, m) = RoundHalfUp(args[p].raw_score * Weight(k[1], m) * SCALE,
                                                MaxScore(k[1], m))
              /\ args[p].raw_score > 0 => r.total_score > 0
              /\ r.total_time_sec >= args[p].time_spent_sec
              /\ r.rank >= 1
              /\ DOMAIN ExamRows(k[1]) = {k} => r.rank = 1

(* C23: under Spec, the call that returns hands back the committed
   leaderboard entry of the submitting participant: its component of the
   submitted module is the weighted submitted score, its total_score is
   positive for a positive raw score, its total_time_sec holds the
   submitted time, and its rank is at least 1, and 1 when the entry is
   the only one of the exam. *)
C23_ReturnedEntry == [][C23_Step]_vars

(* the keys of the leaderboard entries stored for session s *)
EntriesOf(s) == {k \in DOMAIN leaderboard_snapshot : leaderboard_snapshot[k].session_id = s}

(* session s has at least one committed submission *)
HasSubmission(s) == \E m \in VALID_MODULES : <<s, m>> \in DOMAIN module_scores

(* C24: under Spec, in every reachable state every leaderboard entry is
   the entry of one participant's session, stored under that session's
   (exam, participant); no session has more than one entry, and a
   session with at least one committed submission has exactly one,
   however often and however concurrently its participant submits. *)
C24_OneEntryPerParticipant ==
    /\ \A k \in DOMAIN leaderboard_snapshot :
          \E s \in Sessions : k = <<ExamOf(s), UserOf(s)>> /\ leaderboard_snapshot[k].session_id = s
    /\ \A s \in Sessions :
          /\ Cardinality(EntriesOf(s)) <= 1
          /\ HasSubmission(s) => EntriesOf(s) = {<<ExamOf(s), UserOf(s)>>}

(* both workers have committed a submission of one session, whose module
   row has been updated in place, and the session has its entry *)
C24_Witness ==
    /\ commits[1] >= 1 /\ commits[2] >= 1
    /\ args[1].session_id = args[2].session_id
    /\ args[1].session_id \in Sessions
    /\ \E m \in VALID_MODULES :
          /\ <<args[1].session_id, m>> \in DOMAIN module_scores
          /\ module_scores[<<args[1].session_id, m>>].version >= 2
    /\ Cardinality(EntriesOf(args[1].session_id)) = 1

C25_Step ==
    \A p \in Procs :
        LET s == args[p].session_id
            e == ExamOf(s)
            k == <<e, UserOf(s)>>
            stored == [m \in {x \in VALID_MODULES : <<s, x>> \in DOMAIN module_scores'} |->
                          module_scores'[<<s, m>>]]
            weighted == _calculate_weighted_score(stored, e)
        IN CommitStep(p) =>
              /\ <<s, args[p].module_type>> \in DOMAIN module_scores'
              /\ k \in DOMAIN leaderboard_snapshot'
              /\ leaderboard_snapshot'[k].weighted_coding = weighted.weighted_coding
              /\ leaderboard_snapshot'[k].weighted_quiz = weighted.weighted_quiz
              /\ leaderboard_snapshot'[k].weighted_assessment = weighted.weighted_assessment
              /\ leaderboard_snapshot'[k].total_score = weighted.total_score
              /\ leaderboard_snapshot'[k].total_time_sec = weighted.total_time_sec

(* C25: under Spec, the commit of a submission leaves the entry of the
   submitting session equal to the weighted-score calculator applied to
   all module rows then stored for the session, the row written by this
   commit among them, whether the row was created or updated. *)
C25_EntryFromAllStoredRows == [][C25_Step]_vars

----------------------------------------------------------------------------
(* a session of participant u for exam e is stored *)
PairStored(e, u) ==
    \E i \in DOMAIN exam_sessions : exam_sessions[i].exam_id = e /\ exam_sessions[i].user_id = u

C26_State ==
    /\ \A i, j \in DOMAIN exam_sessions :
          (/\ exam_sessions[i].exam_id = exam_sessions[j].exam_id
           /\ exam_sessions[i].user_id = exam_sessions[j].user_id) => i = j
    /\ \A p \in Procs : outcome[p] = "conflict" => commits[p] = 0

C26_Step ==
    \A p \in Procs :
        /\ (/\ pc[p] = "create_select" /\ pc'[p] # pc[p]
            /\ PairStored(args[p].exam_id, args[p].user_id)) =>
              /\ outcome'[p] = "conflict"
              /\ create_session_status(outcome'[p]) = 409
              /\ pc'[p] = "teardown"
              /\ exam_sessions' = exam_sessions
        /\ (pc[p] = "teardown" /\ pc'[p] # pc[p] /\ outcome[p] = "conflict") =>
              exam_sessions' = exam_sessions

(* C26: under SpecSessions, in every reachable state no two exam_sessions
   rows share (exam_id, user_id), whatever create_session requests run
   concurrently; and a create_session whose lookup runs while a session
   of its pair is stored is answered 409 and inserts no row. *)
C26_OneSessionPerPair == []C26_State /\ [][C26_Step]_vars

(* a session has been created by a request, and a later request for the
   same pair has been answered with the conflict outcome *)
C26_Witness ==
    \E p \in Procs : \E i \in DOMAIN exam_sessions :
        /\ i > NumSessions
        /\ exam_sessions[i].exam_id = args[p].exam_id
        /\ exam_sessions[i].user_id = args[p].user_id
        /\ outcome[p] = "conflict"
        /\ pc[p] = "idle"

C27_State ==
    \A p \in Procs :
        /\ pc[p] = "finish_commit" =>
              /\ args[p].session_id \in Sessions
              /\ session_status[args[p].session_id] = "in_progress"
              /\ \A q \in Procs \ {p} :
                    ~(pc[q] = "finish_commit" /\ args[q].session_id = args[p].session_id)
        /\ outcome[p] = "bad_request" => commits[p] = 0

C27_Step ==
    /\ \A s \in Sessions :
          session_status[s] # "in_progress" => session_status'[s] = session_status[s]
    /\ \A p \in Procs :
          LET s == args[p].session_id IN
          /\ (/\ pc[p] = "finish_select" /\ pc'[p] # pc[p]
              /\ s \in Sessions /\ session_status[s] # "in_progress") =>
                /\ outcome'[p] = "bad_request"
                /\ pc'[p] = "teardown"
                /\ session_status' = session_status
          /\ (pc[p] = "finish_commit" /\ pc'[p] # pc[p]) =>
                /\ session_status[s] = "in_progress"
                /\ session_status'[s] = "submitted"
                /\ commits'[p] = 1
          /\ (pc[p] = "teardown" /\ pc'[p] # pc[p] /\ outcome[p] = "bad_request") =>
                session_status' = session_status

(* C27: under SpecSessions, a session status that is not in_progress never
   changes again; finish_session on such a session is answered 400 and
   commits nothing; and the status is written only by a finish that found
   in_progress and still finds it at its commit, so of the finish requests
   for one session, concurrent or not, at most one succeeds. *)
C27_StatusTerminal == []C27_State /\ [][C27_Step]_vars

(* both workers have asked to finish session 1; one has succeeded and the
   other has been rejected *)
C27_Witness ==
    /\ args[1].session_id = 1 /\ args[2].session_id = 1
    /\ outcome[1] = "returned" /\ commits[1] = 1
    /\ outcome[2] = "bad_request"
    /\ pc[1] = "idle" /\ pc[2] = "idle"
    /\ session_status[1] = "submitted"

----------------------------------------------------------------------------
(* the committed submissions of module m of session s: the positions of
   their audit entries in the log *)
SubmissionsOf(s, m) ==
    {i \in 1..Len(score_audit_log) :
        score_audit_log[i].session_id = s /\ score_audit_log[i].module_type = m}

C28_State ==
    \A s \in Sessions, m \in VALID_MODULES :
        IF <<s, m>> \in DOMAIN module_scores
        THEN module_scores[<<s, m>>].version = Cardinality(SubmissionsOf(s, m))
        ELSE SubmissionsOf(s, m) = {}

C28_Step ==
    /\ \A p \in Procs :
          LET k == <<args[p].session_id, args[p].module_type>> IN
          CommitStep(p) =>
             /\ k \in DOMAIN module_scores'
             /\ module_scores'[k].version =
                   IF k \in DOMAIN module_scores THEN module_scores[k].version + 1 ELSE 1
             /\ \A j \in DOMAIN module_scores : j # k =>
                   j \in DOMAIN module_scores' /\ module_scores'[j] = module_scores[j]
             /\ DOMAIN module_scores' = DOMAIN module_scores \cup {k}
    /\ (\A p \in Procs : ~CommitStep(p)) => module_scores' = module_scores

(* C28: under Spec, module_scores holds one row per (session, module
   type); the commit of the pair's first submission stores it with
   version 1, every later commit of a submission of the pair adds exactly
   1 to its version, and no other step writes it: in every committed
   state, whatever the interleaving and however many attempts were rolled
   back and retried, the version is the number of submissions committed
   for the pair. *)
C28_VersionCountsCommits == []C28_State /\ [][C28_Step]_vars

(* both workers have committed submissions of one module of one session,
   one of them after a rolled-back attempt, and the row has been updated
   in place *)
C28_Witness ==
    /\ commits[1] >= 1 /\ commits[2] >= 1
    /\ args[1].session_id = args[2].session_id
    /\ args[1].module_type = args[2].module_type
    /\ \E p \in Procs : attempt[p] >= 2
    /\ <<args[1].session_id, args[1].module_type>> \in DOMAIN module_scores
    /\ module_scores[<<args[1].session_id, args[1].module_type>>].version >= 2

(* the audit entries of the pair of entry i that precede it *)
EarlierOf(i) ==
    {j \in SubmissionsOf(score_audit_log[i].session_id, score_audit_log[i].module_type) : j < i}

C29_State ==
    \A i \in 1..Len(score_audit_log) :
        IF EarlierOf(i) = {}
        THEN score_audit_log[i].old_score = <<>>
        ELSE LET j == CHOOSE x \in EarlierOf(i) : \A y \in EarlierOf(i) : y <= x
             IN score_audit_log[i].old_score = <<score_audit_log[j].new_score>>

C29_Step ==
    /\ \A p \in Procs :
          LET k == <<args[p].session_id, args[p].module_type>>
              n == Len(score_audit_log)
          IN CommitStep(p) =>
                /\ Len(score_audit_log') = n + 1
                /\ score_audit_log'[n + 1].session_id = k[1]
                /\ score_audit_log'[n + 1].module_type = k[2]
                /\ score_audit_log'[n + 1].new_score = args[p].raw_score
                /\ score_audit_log'[n + 1].old_score =
                      IF k \in DOMAIN module_scores
                      THEN <<module_scores[k].raw_score>> ELSE <<>>
                /\ module_scores'[k].raw_score = args[p].raw_score
    /\ (\A p \in Procs : ~CommitStep(p)) => Len(score_audit_log') = Len(score_audit_log)

(* C29: under SpecAudited, the commit of a submission appends exactly one
   audit entry, of the submitted (session, module type), whose new_score
   is the submitted raw score and whose old_score is the raw score stored
   for the pair just before the commit, or null when no row was stored; no
   other step appends one.  Hence in every committed log each entry's
   old_score is the new_score of the pair's preceding entry, and null for
   the pair's first. *)
C29_AuditChain == []C29_State /\ [][C29_Step]_vars

(* the log holds three entries of one pair with two different scores, the
   workers having committed concurrently submitted scores, one of them
   after a rolled-back attempt *)
C29_Witness ==
    /\ Len(score_audit_log) >= 3
    /\ \E i, j \in 1..Len(score_audit_log) :
          score_audit_log[i].new_score # score_audit_log[j].new_score
    /\ \E i \in 1..Len(score_audit_log) :
          score_audit_log[i].old_score # <<>>
             /\ score_audit_log[i].old_score # <<score_audit_log[i].new_score>>
    /\ \E p \in Procs : attempt[p] >= 2 /\ commits[p] >= 1

(* s is a prefix of t *)
IsPrefix(s, t) == Len(s) <= Len(t) /\ \A i \in 1..Len(s) : t[i] = s[i]

C30_Step == IsPrefix(score_audit_log, score_audit_log')

(* C30: under SpecAudited, every step of every operation (a submission, a
   rolled-back and retried attempt, a rank refresh, a session finish)
   leaves the committed audit entries in place and unchanged: the
   committed log is an extension of the committed log of every earlier
   time. *)
C30_AuditAppendOnly == [][C30_Step]_vars

(* audit entries are stored, an attempt has been rolled back and retried,
   a finish has committed and a standalone refresh has run *)
C30_Witness ==
    /\ Len(score_audit_log) >= 2
    /\ session_status[1] = "submitted"
    /\ \E p \in Procs : attempt[p] >= 2 /\ commits[p] >= 1
    /\ \E p \in Procs : pc[p] \in {"recalc_invalidate", "finish_invalidate"}

----------------------------------------------------------------------------
(* both workers have made one call each, for session s, and both calls
   have returned *)
BothReturnedFor(s) ==
    \A p \in Procs :
        /\ ncalls[p] = 1 /\ pc[p] = "idle" /\ outcome[p] = "returned"
        /\ args[p].session_id = s

(* C31: under Spec, after two submissions of one session, concurrent or
   not, of the same or of different modules, have both committed and
   returned, the session's entry equals the calculator's result over the
   module rows stored by both, every submitted module has its row, the
   row's version counts the commits of its submissions and the audit log
   holds an entry for each commit. *)
C31_BothSubmissionsCount ==
    \A s \in Sessions :
        BothReturnedFor(s) =>
            LET k == <<ExamOf(s), UserOf(s)>>
                weighted == _calculate_weighted_score(StoredModules(s), ExamOf(s))
            IN /\ k \in DOMAIN leaderboard_snapshot
               /\ leaderboard_snapshot[k].total_score = weighted.total_score
               /\ leaderboard_snapshot[k].total_time_sec = weighted.total_time_sec
               /\ \A p \in Procs :
                     LET m == args[p].module_type IN
                     /\ <<s, m>> \in DOMAIN module_scores
                     /\ module_scores[<<s, m>>].raw_score = args[p].raw_score
                     /\ module_scores[<<s, m>>].version =
                           SumOver([q \in Procs |-> IF args[q].module_type = m
                                                    THEN commits[q] ELSE 0], Procs)
               /\ Len(score_audit_log) = SumOver(commits, Procs)

C32_Step ==
    \A p \in Procs :
        LET k == <<args[p].session_id, args[p].module_type>>
            based == txn[p].ms[k].version - 1
        IN (CommitStep(p) /\ based >= 1) =>
              /\ k \in DOMAIN module_scores
              /\ module_scores[k].version = based

(* C32: under SpecUnlocked, where a writer holds no row lock, an update of
   a ModuleScore row that is based on a version which is no longer the
   stored one (another update has committed in between) is never
   committed: the version check detects the stale writer, whose write is
   rejected or retried. *)
C32_StaleWriterDetected == [][C32_Step]_vars

----------------------------------------------------------------------------
(* the transaction of worker p holds the row lock of session s *)
HoldsSession(p, s) == Lock("session", s, 0) \in locks[p]

(* worker p is inside the transaction of a submission, or of a finish,
   of session s, past its locking read of the session row *)
InSessionWindow(p, s) ==
    /\ args[p].session_id = s
    /\ pc[p] \in {"select_module", "upsert_leaderboard", "refresh_ranks", "commit", "finish_commit"}

C33_State ==
    \A s \in Sessions :
        /\ \A p \in Procs : InSessionWindow(p, s) => HoldsSession(p, s)
        /\ \A p, q \in Procs : (HoldsSession(p, s) /\ HoldsSession(q, s)) => p = q

C33_Step ==
    \A s \in Sessions :
        (\/ session_status'[s] # session_status[s]
         \/ \E m \in VALID_MODULES :
               \/ (<<s, m>> \in DOMAIN module_scores) # (<<s, m>> \in DOMAIN module_scores')
               \/ /\ <<s, m>> \in DOMAIN module_scores
                  /\ module_scores'[<<s, m>>] # module_scores[<<s, m>>]) =>
            \E p \in Procs :
                /\ InSessionWindow(p, s)
                /\ HoldsSession(p, s)
                /\ ~HoldsSession(p, s)'
                /\ \A q \in Procs \ {p} : ~InSessionWindow(q, s)

(* C33: under SpecAudited, from its locking read of the session row until
   its commit or rollback a submission or a finish holds the row lock of
   the session and no other transaction holds it, and the session's
   status and module rows are written only by the commit of the one
   transaction inside that window: a finish and a submission of one
   session never overlap. *)
C33_FinishAndSubmitSerialized == []C33_State /\ [][C33_Step]_vars

(* a submission of session 1 is about to commit while a finish of the
   same session waits for the session row *)
C33_Witness ==
    \E p, q \in Procs :
        /\ pc[p] = "commit" /\ args[p].session_id = 1
        /\ pc[q] = "finish_select" /\ args[q].session_id = 1
        /\ Blocked(q)

----------------------------------------------------------------------------
(* the call of worker p has ended in one of its three ways *)
Terminated(p) ==
    /\ pc[p] = "idle"
    /\ outcome[p] \in {"returned", "RuntimeError", "NoResultFound"}

(* C34: under SpecLive, every call of submit_module_score that has entered
   the retry loop ends, whatever the other submissions and the finishes
   do: with the returned entry, with the retries-exhausted RuntimeError
   or with the error that is not retried (NoResultFound); no call waits
   forever for a lock. *)
C34_EveryCallTerminates ==
    \A p \in Procs : (pc[p] \in SubmitPositions) ~> Terminated(p)

(* a call has ended with RuntimeError after three passes that waited for
   the session row held by a finish, which still holds it *)
C34_Witness ==
    \E p, q \in Procs :
        /\ pc[p] = "idle" /\ outcome[p] = "RuntimeError" /\ attempt[p] = MAX_RETRIES
        /\ pc[q] = "finish_commit"
        /\ args[p].session_id = args[q].session_id

----------------------------------------------------------------------------
(* worker p's step is a rank refresh *)
RefreshStep(p) ==
    \/ pc[p] = "refresh_ranks" /\ pc'[p] = "commit"
    \/ pc[p] = "recalc_refresh" /\ pc'[p] = "recalc_invalidate"
    \/ pc[p] = "finish_refresh" /\ pc'[p] = "finish_invalidate"

(* the exam whose ranks worker p's refresh computes *)
RefreshedExam(p) ==
    IF pc[p] = "refresh_ranks" THEN ExamOf(args[p].session_id) ELSE args[p].exam_id

(* row without its rank_position *)
WithoutRank(row) == [row EXCEPT !.rank_position = 0]

C35_Step ==
    \A p \in Procs :
        LET e == RefreshedExam(p)
            before == Installed(leaderboard_snapshot, txn[p])
            after == Installed(leaderboard_snapshot, txn'[p])
        IN RefreshStep(p) =>
              /\ DOMAIN after = DOMAIN before
              /\ \A k \in DOMAIN before :
                    /\ WithoutRank(after[k]) = WithoutRank(before[k])
                    /\ k[1] # e => after[k] = before[k]
              /\ DOMAIN txn'[p].ranks = {k \in DOMAIN before : k[1] = e}
              /\ txn'[p].entry = txn[p].entry
              /\ UNCHANGED dbVars

(* C35: under Spec, a rank refresh for exam E leaves the leaderboard rows,
   as its transaction sees them, with the same keys, with the same
   weighted components, total_score and total_time_sec in every row, and
   with the rows of every other exam unchanged, ranks included: it
   assigns a rank_position to the rows of E and does nothing else. *)
C35_RefreshWritesRanksOnly == [][C35_Step]_vars

(* a refresh for exam 1 has ranked two rows while exam 2 has an entry *)
C35_Witness ==
    \E p \in Procs :
        /\ pc[p] = "commit"
        /\ ExamOf(args[p].session_id) = 1
        /\ Cardinality(DOMAIN txn[p].ranks) >= 2
        /\ \E k \in DOMAIN leaderboard_snapshot : k[1] = 2

----------------------------------------------------------------------------
C36_Step ==
    \A p \in Procs :
        LET s == args[p].session_id
            k == <<s, args[p].module_type>>
            ek == <<ExamOf(s), UserOf(s)>>
        IN CommitStep(p) =>
              /\ DOMAIN module_scores' = DOMAIN module_scores \cup {k}
              /\ \A j \in DOMAIN module_scores : j # k => module_scores'[j] = module_scores[j]
              /\ Len(score_audit_log') = Len(score_audit_log) + 1
              /\ SubSeq(score_audit_log', 1, Len(score_audit_log)) = score_audit_log
              /\ DOMAIN leaderboard_snapshot' = DOMAIN leaderboard_snapshot \cup {ek}
              /\ \A j \in DOMAIN leaderboard_snapshot :
                    /\ j # ek => WithoutRank(leaderboard_snapshot'[j]) = WithoutRank(leaderboard_snapshot[j])
                    /\ j[1] # ek[1] => leaderboard_snapshot'[j] = leaderboard_snapshot[j]
              /\ leaderboard_snapshot'[ek].session_id = s
              /\ session_status' = session_status
              /\ exam_sessions' = exam_sessions

(* C36: under Spec, the commit of a submission for session s and module m
   writes the module row (s, m), one audit entry at the end of the log,
   the entry of s's participant and the rank_position of entries of s's
   exam, and nothing else: the other module rows, the score and time
   fields of the other participants' entries, the entries of the other
   exams and the exam_sessions rows with their status stay as they
   were. *)
C36_SubmissionFrame == [][C36_Step]_vars

(* a submission has committed while another module row, another entry of
   its exam and an entry of the other exam were stored *)
C36_Witness ==
    \E p \in Procs :
        LET s == args[p].session_id IN
        /\ pc[p] = "invalidate"
        /\ s \in Sessions
        /\ \E j \in DOMAIN module_scores : j[1] # s
        /\ \E j \in DOMAIN leaderboard_snapshot : j[1] = ExamOf(s) /\ j[2] # UserOf(s)
        /\ \E j \in DOMAIN leaderboard_snapshot : j[1] # ExamOf(s)

(* C37: under Spec, in every committed state every leaderboard entry has a
   rank_position of at least 1 and at most the number of entries of its
   exam; the placeholder 0 of a newly inserted entry is never committed. *)
C37_RankWithinExam ==
    \A k \in DOMAIN leaderboard_snapshot :
        /\ leaderboard_snapshot[k].rank_position >= 1
        /\ leaderboard_snapshot[k].rank_position <= Cardinality(DOMAIN ExamRows(k[1]))

(* an exam has two committed entries, one on rank 2, inserted and updated
   by committed submissions *)
C37_Witness ==
    \E k, j \in DOMAIN leaderboard_snapshot :
        /\ k[1] = j[1] /\ k # j
        /\ leaderboard_snapshot[k].rank_position = 1
        /\ leaderboard_snapshot[j].rank_position = 2

(* the newest audit entry of (session, module type) *)
NewestOf(s, m) == CHOOSE i \in SubmissionsOf(s, m) : \A j \in SubmissionsOf(s, m) : j <= i

(* C38: under SpecAudited, in every committed state, for each (session, module
   type), the number of audit entries of the pair is the version of its
   ModuleScore row, there are no entries when there is no row, and the
   new_score of the newest audit entry of the pair is the raw_score the
   row stores. *)
C38_AuditMatchesRow ==
    \A s \in Sessions, m \in VALID_MODULES :
        IF <<s, m>> \in DOMAIN module_scores
        THEN /\ Cardinality(SubmissionsOf(s, m)) = module_scores[<<s, m>>].version
             /\ SubmissionsOf(s, m) # {}
             /\ score_audit_log[NewestOf(s, m)].new_score = module_scores[<<s, m>>].raw_score
        ELSE Cardinality(SubmissionsOf(s, m)) = 0

(* a row has been updated in place to a score different from an earlier
   one, and another pair has no row and no audit entry *)
C38_Witness ==
    /\ \E s \in Sessions, m \in VALID_MODULES :
          /\ <<s, m>> \in DOMAIN module_scores
          /\ module_scores[<<s, m>>].version >= 2
          /\ \E i \in SubmissionsOf(s, m) :
                score_audit_log[i].new_score # module_scores[<<s, m>>].raw_score
    /\ \E s \in Sessions, m \in VALID_MODULES : <<s, m>> \notin DOMAIN module_scores

----------------------------------------------------------------------------
(* worker p takes a step of submit_module_score *)
SubmitMoves(p) == pc[p] \in SubmitPositions /\ <<pc[p], attempt[p]>> # <<pc'[p], attempt'[p]>>

C39_Step ==
    \A p \in Procs :
        LET s == args[p].session_id
            k == <<s, args[p].module_type>>
            ek == <<ExamOf(s), UserOf(s)>>
        IN /\ SubmitMoves(p) => session_status' = session_status
           /\ (/\ pc[p] = "select_session" /\ s \in Sessions
               /\ \A q \in Procs \ {p} : \A h \in locks[q] : ~Conflicts(Lock("session", s, 0), h)
               /\ SubmitMoves(p))
                 => pc'[p] = "select_module" /\ outcome'[p] = outcome[p]
           /\ (CommitStep(p) /\ session_status[s] = "submitted") =>
                 /\ k \in DOMAIN module_scores'
                 /\ module_scores'[k].raw_score = args[p].raw_score
                 /\ module_scores'[k].version =
                       IF k \in DOMAIN module_scores THEN module_scores[k].version + 1 ELSE 1
                 /\ Len(score_audit_log') = Len(score_audit_log) + 1
                 /\ score_audit_log'[Len(score_audit_log')].session_id = s
                 /\ score_audit_log'[Len(score_audit_log')].new_score = args[p].raw_score
                 /\ ek \in DOMAIN leaderboard_snapshot'
                 /\ leaderboard_snapshot'[ek].session_id = s
                 /\ leaderboard_snapshot'[ek].rank_position >= 1

(* C39: under SpecAudited, no step of submit_module_score changes a
   session's status, the session SELECT of a submission for an existing
   session goes on to the module upsert whatever the session's status,
   and the commit of a submission for a session that is already submitted
   writes the module row, appends the audit entry and stores the ranked
   leaderboard entry of the session. *)
C39_StatusIgnored == [][C39_Step]_vars

(* one worker has finished session 1 and then submitted a score for it,
   which is committed, while no other worker has made a call *)
C39_Witness ==
    \E p \in Procs :
        /\ pc[p] = "invalidate" /\ args[p].session_id = 1
        /\ session_status[1] = "submitted"
        /\ ncalls[p] = 2
        /\ \A q \in Procs \ {p} : ncalls[q] = 0
        /\ Len(score_audit_log) = 1

====
